---- MODULE Spec2Model ----
(***************************************************************************)
(* State-machine model of the economic-report bot: the release watcher     *)
(* (src/services/release_watcher.py), the orchestration closures of        *)
(* src/main.py (rebuild, clean, live tick, rerun) and the bot state.       *)
(*                                                                         *)
(* Time is counted in hours since a Monday 00:00 ET.  The polling settings *)
(* are environment-configurable integers (src/config.py); the model runs   *)
(* the program under settings that are whole hours, with the clock read on *)
(* hour boundaries.                                                        *)
(***************************************************************************)
EXTENDS Integers, Sequences, FiniteSets, TLC

\* ---------------------------------------------------------------- time
HoursPerDay == 24
DaysPerWeek == 7
CutoffHour == 17
WindowDays == 14

\* settings of the run (src/config.py: BURST_POLL_SECONDS, ...), in hours
burst_poll_seconds == 1
burst_window_seconds == 1
backoff_start_seconds == 2
backoff_max_seconds == 5
\* POST_ONLY_CONFIGURED_SOURCES=false: unconfigured events stay in the calendar
post_only_configured_sources == FALSE

\* the clock of the model runs from StartTime to MaxTime
StartTime == 154
MaxTime == 161
\* notification counters saturate here
MaxSent == 2

None == 0 - 1
HoursPerWeek == DaysPerWeek * HoursPerDay

\* timeutil.week_bounds_et: Monday 00:00 of the anchor's week
week_bounds_et(anchor) == anchor - (anchor % HoursPerWeek)

\* state._monday_start
monday_start(dt) == dt - (dt % HoursPerWeek)

\* ---------------------------------------------------------------- events
\* What the providers' calendar pages list (build_calendar of each provider):
\* the two Census retail-sales siblings and, an hour later, a BLS JOLTS
\* placeholder (not configured), on the Sunday of week 0.
SundayRelease == 6 * HoursPerDay + 11

NoRelease == [actual |-> "none"]

MkEvent(id, name, t, prov, conf, gk) ==
  [event_id |-> id, name |-> name, scheduled_time_et |-> t, provider |-> prov,
   provider_configured |-> conf, status |-> "scheduled", release |-> NoRelease,
   group_key |-> gk]

CensusCalendar ==
  << MkEvent("census:retail", "Retail Sales m/m", SundayRelease, "CENSUS", TRUE, "census:marts"),
     MkEvent("census:core", "Core Retail Sales m/m", SundayRelease, "CENSUS", TRUE, "census:marts") >>

\* a release of the following week: Monday 08:00
NextWeekRelease == HoursPerWeek + 8

\* BLS lists the JOLTS placeholder and, in the following week, CPI m/m
BLSCalendar ==
  << MkEvent("bls:jolts", "JOLTS Job Openings", SundayRelease + 1, "BLS", FALSE, "jolts"),
     MkEvent("bls:cpi", "CPI m/m", NextWeekRelease, "BLS", TRUE, "cpi") >>


\* main.providers_by_name, the providers whose events the model follows
ProviderNames == {"CENSUS", "BLS", "BEA"}

ProviderCalendar(p) == IF p = "CENSUS" THEN CensusCalendar ELSE BLSCalendar

Ids == {"census:retail", "census:core", "bls:jolts", "bls:cpi", "bea:gdp"}
GroupKeys == {"census:marts", "jolts", "cpi", "gdp"}
Kinds == {"released", "missing", "expired"}
\* What a fetch may meet at the source.  The runs draw "data" and "nodata";
\* a raising Census fetch ("error") differs from "nodata" only in leaving an
\* earlier actual in the record.
Outcomes == {"data", "nodata"}
\* The events whose fetch reads what the source answers: the fetch of an
\* unconfigured event never looks at the source.
Answering == {"census:retail", "census:core"}
Answers == [Answering -> Outcomes]
\* The provider failures a build may meet: none, or the Census pages down
Failures == { {}, {"CENSUS"} }

\* ---------------------------------------------------------------- dicts
Pop(d, k) == [i \in DOMAIN d \ {k} |-> d[i]]
Put(d, k, v) == [i \in DOMAIN d \cup {k} |-> IF i = k THEN v ELSE d[i]]
Get(d, k, default) == IF k \in DOMAIN d THEN d[k] ELSE default
Min(a, b) == IF a <= b THEN a ELSE b
Max(a, b) == IF a >= b THEN a ELSE b
EmptyDict == [i \in {} |-> 0]

\* ---------------------------------------------------------------- providers
\* CensusProvider.fetch_release: the outcome is what the Census data
\* answered ("data": the month is published, "nodata": it is not, "error":
\* the fetch raised).
CensusFetchRelease(e, oc) ==
  IF ~e.provider_configured
    THEN [e EXCEPT !.status = "disabled", !.release = NoRelease]
    ELSE CASE oc = "data" -> [e EXCEPT !.status = "released", !.release = [actual |-> "v"]]
           [] oc = "nodata" -> [e EXCEPT !.status = "scheduled", !.release = [actual |-> "none"]]
           [] OTHER -> [e EXCEPT !.status = "scheduled"]

\* BLSProvider.fetch_release (_fill_pct_change and its siblings): released
\* with the computed value, or the event as it was when a series is short.
\* A raised exception leaves BLSProvider and is caught by poll_event, which
\* returns the event as it was.
BLSFetchRelease(e, oc) ==
  IF ~e.provider_configured
    THEN [e EXCEPT !.status = "disabled", !.release = NoRelease]
    ELSE IF oc = "data"
      THEN [e EXCEPT !.status = "released", !.release = [actual |-> "v"]]
      ELSE e

\* BEAProvider.fetch_release: no release parsing yet, a configured event is
\* marked missing whatever the source holds
BEAFetchRelease(e) ==
  IF ~e.provider_configured
    THEN [e EXCEPT !.status = "disabled", !.release = NoRelease]
    ELSE [e EXCEPT !.status = "missing", !.release = NoRelease]

\* provider.fetch_release of the event's provider
fetch_release(e, oc) ==
  IF e.provider = "CENSUS" THEN CensusFetchRelease(e, oc)
  ELSE IF e.provider = "BEA" THEN BEAFetchRelease(e)
  ELSE BLSFetchRelease(e, oc)

\* ---------------------------------------------------------------- watcher
PollPlan(due, next, in_burst, deadline, bo, expired) ==
  [due |-> due, next_poll_at |-> next, in_burst_window |-> in_burst,
   burst_deadline |-> deadline, backoff_seconds |-> bo, expired_for_day |-> expired]

Terminal == {"released", "disabled"}

\* (variant: the cutoff hour added to the scheduled time instead of replacing its hour)
cutoff_dt_added(e) == e.scheduled_time_et + CutoffHour

\* ReleaseWatcher._cutoff_dt
cutoff_dt(e) ==
  (e.scheduled_time_et - (e.scheduled_time_et % HoursPerDay)) + CutoffHour

\* (variant: a plan that finds the event due writes the time it announces
\* into _next_poll_at)
plan_advancing(e, t, npa, bo) ==
  IF e.status \in Terminal
    THEN [plan |-> PollPlan(FALSE, None, FALSE, None, None, FALSE), npa |-> npa, bo |-> bo]
  ELSE IF t < e.scheduled_time_et
    THEN [plan |-> PollPlan(FALSE, None, FALSE, None, None, FALSE),
          npa |-> Pop(npa, e.event_id), bo |-> Pop(bo, e.event_id)]
  ELSE IF t >= cutoff_dt(e)
    THEN [plan |-> PollPlan(FALSE, None, FALSE, None, None, TRUE),
          npa |-> Pop(npa, e.event_id), bo |-> Pop(bo, e.event_id)]
  ELSE
    LET burst_deadline == e.scheduled_time_et + burst_window_seconds
        in_burst == t <= burst_deadline
        at == Get(npa, e.event_id, e.scheduled_time_et)
        due == t >= at
        b == Get(bo, e.event_id, backoff_start_seconds)
        next_at == IF ~due THEN at ELSE IF in_burst THEN t + burst_poll_seconds ELSE t + b
    IN [plan |-> PollPlan(due, next_at, in_burst, burst_deadline,
                          IF in_burst THEN None ELSE b, FALSE),
        npa |-> Put(npa, e.event_id, next_at), bo |-> bo]

\* ReleaseWatcher.plan: the PollPlan together with the timer maps as the
\* call leaves them.
plan(e, t, npa, bo) ==
  IF e.status \in Terminal
    THEN [plan |-> PollPlan(FALSE, None, FALSE, None, None, FALSE), npa |-> npa, bo |-> bo]
  ELSE IF t < e.scheduled_time_et
    THEN [plan |-> PollPlan(FALSE, None, FALSE, None, None, FALSE),
          npa |-> Pop(npa, e.event_id), bo |-> Pop(bo, e.event_id)]
  ELSE IF t >= cutoff_dt(e)
    THEN [plan |-> PollPlan(FALSE, None, FALSE, None, None, TRUE),
          npa |-> Pop(npa, e.event_id), bo |-> Pop(bo, e.event_id)]
  ELSE
    LET burst_deadline == e.scheduled_time_et + burst_window_seconds
        in_burst == t <= burst_deadline
        npa1 == IF e.event_id \in DOMAIN npa THEN npa
                ELSE Put(npa, e.event_id, e.scheduled_time_et)
        due == t >= npa1[e.event_id]
        b == Get(bo, e.event_id, backoff_start_seconds)
    IN IF in_burst
         THEN [plan |-> PollPlan(due, IF due THEN t + burst_poll_seconds ELSE npa1[e.event_id],
                                 TRUE, burst_deadline, None, FALSE),
               npa |-> npa1, bo |-> bo]
         ELSE [plan |-> PollPlan(due, IF due THEN t + b ELSE npa1[e.event_id],
                                 FALSE, burst_deadline, b, FALSE),
               npa |-> npa1, bo |-> bo]

\* ReleaseWatcher.poll_event
poll_event(e, oc) ==
  IF e.provider \notin ProviderNames
    THEN [e EXCEPT !.status = "disabled"]
    ELSE fetch_release(e, oc)

\* (variant: the backoff is stored without being doubled)
reschedule_no_doubling(e, t, npa, bo) ==
  IF t + burst_poll_seconds >= cutoff_dt(e)
    THEN [npa |-> Pop(npa, e.event_id), bo |-> Pop(bo, e.event_id)]
  ELSE IF t <= e.scheduled_time_et + burst_window_seconds
    THEN [npa |-> Put(npa, e.event_id, t + burst_poll_seconds), bo |-> bo]
  ELSE LET b == Get(bo, e.event_id, backoff_start_seconds)
       IN [npa |-> Put(npa, e.event_id, t + b), bo |-> Put(bo, e.event_id, b)]

\* ReleaseWatcher.maybe_poll, the part after a fetch that did not release:
\* the timer maps it leaves.
reschedule(e, t, npa, bo) ==
  IF t + burst_poll_seconds >= cutoff_dt(e)
    THEN [npa |-> Pop(npa, e.event_id), bo |-> Pop(bo, e.event_id)]
  ELSE IF t <= e.scheduled_time_et + burst_window_seconds
    THEN [npa |-> Put(npa, e.event_id, t + burst_poll_seconds), bo |-> bo]
  ELSE LET b == Get(bo, e.event_id, backoff_start_seconds)
       IN [npa |-> Put(npa, e.event_id, t + b),
           bo |-> Put(bo, e.event_id, Min(b * 2, backoff_max_seconds))]

\* (variant: maybe_poll without the plan: the event is fetched at once)
maybe_poll_unplanned(e, t, npa, bo, oc) ==
  [e |-> poll_event(e, oc), npa |-> npa, bo |-> bo, fetched |-> TRUE]

\* ReleaseWatcher.maybe_poll: the event and the timer maps it leaves, and
\* whether it fetched.
maybe_poll(e, t, npa, bo, oc) ==
  LET p == plan(e, t, npa, bo)
  IN IF p.plan.expired_for_day \/ ~p.plan.due
       THEN [e |-> e, npa |-> p.npa, bo |-> p.bo, fetched |-> FALSE]
       ELSE LET updated == poll_event(e, oc)
            IN IF updated.status # "released"
                 THEN LET r == reschedule(e, t, p.npa, p.bo)
                      IN [e |-> updated, npa |-> r.npa, bo |-> r.bo, fetched |-> TRUE]
                 ELSE [e |-> updated, npa |-> Pop(p.npa, e.event_id),
                       bo |-> Pop(p.bo, e.event_id), fetched |-> TRUE]

\* (variant: check_due_live_once without its two early `continue`s and
\* without the plan: every event is fetched)
RECURSIVE check_due_live_once_fetching_all(_, _, _, _, _)
check_due_live_once_fetching_all(evs, t, npa, bo, ocs) ==
  IF evs = << >> THEN [events |-> << >>, npa |-> npa, bo |-> bo, fetched |-> {}]
  ELSE
    LET e == Head(evs)
        rest == check_due_live_once_fetching_all(Tail(evs), t, npa, bo, ocs)
    IN [events |-> << poll_event(e, Get(ocs, e.event_id, "nodata")) >> \o rest.events,
        npa |-> rest.npa, bo |-> rest.bo, fetched |-> {e.event_id} \cup rest.fetched]

\* ReleaseWatcher.check_due_live_once: the updated list, the timer maps and
\* the ids of the events it fetched.  ocs gives, per event id, what a fetch
\* for it answers in this pass.  r is what the loop body makes of the first
\* event, rest what the loop makes of the others with the timers r leaves.
RECURSIVE check_due_live_once(_, _, _, _, _)
check_due_live_once(evs, t, npa, bo, ocs) ==
  IF evs = << >> THEN [events |-> << >>, npa |-> npa, bo |-> bo, fetched |-> {}]
  ELSE
    LET e == Head(evs)
        skip == e.status \in Terminal \/ t < e.scheduled_time_et
    IN CHOOSE out \in UNION {
         { [events |-> << r.e >> \o rest.events, npa |-> rest.npa, bo |-> rest.bo,
            fetched |-> (IF r.fetched THEN {e.event_id} ELSE {}) \cup rest.fetched] :
             rest \in {check_due_live_once(Tail(evs), t, r.npa, r.bo, ocs)} } :
           r \in {IF skip THEN [e |-> e, npa |-> npa, bo |-> bo, fetched |-> FALSE]
                  ELSE maybe_poll(e, t, npa, bo, Get(ocs, e.event_id, "nodata"))} } : TRUE

\* (variant: the cutoff test is left out)
is_expired_for_day_no_cutoff(e, t) ==
  IF e.status \in Terminal THEN FALSE ELSE t >= e.scheduled_time_et

\* (variant: expired only after the cutoff instant)
is_expired_for_day_after_cutoff(e, t) ==
  IF e.status \in Terminal THEN FALSE
  ELSE IF t < e.scheduled_time_et THEN FALSE
  ELSE t > cutoff_dt(e)

\* ReleaseWatcher.is_expired_for_day
is_expired_for_day(e, t) ==
  IF e.status \in Terminal THEN FALSE
  ELSE IF t < e.scheduled_time_et THEN FALSE
  ELSE t >= cutoff_dt(e)

\* ReleaseWatcher.force_poll_once: the list it returns and the timer maps
\* as the call leaves them (it never touches them).
RECURSIVE force_poll_list(_, _, _, _)
force_poll_list(evs, t, include_expired_for_day, ocs) ==
  IF evs = << >> THEN << >>
  ELSE
    LET e == Head(evs)
        out == IF t < e.scheduled_time_et THEN e
               ELSE IF (~include_expired_for_day) /\ is_expired_for_day(e, t) THEN e
               ELSE poll_event(e, Get(ocs, e.event_id, "nodata"))
    IN << out >> \o force_poll_list(Tail(evs), t, include_expired_for_day, ocs)

\* (variant: the timers of the events the forced pass released are cleared,
\* as maybe_poll does)
force_poll_once_clearing(evs, t, npa, bo, include_expired_for_day, ocs) ==
  LET out == force_poll_list(evs, t, include_expired_for_day, ocs)
      done == { out[i].event_id : i \in { j \in DOMAIN out : out[j].status = "released" } }
  IN [events |-> out,
      npa |-> [i \in DOMAIN npa \ done |-> npa[i]],
      bo |-> [i \in DOMAIN bo \ done |-> bo[i]]]

\* ReleaseWatcher.force_poll_once: the list, the timer maps, and the ids of
\* the events the loop reaches poll_event for
force_poll_once(evs, t, npa, bo, include_expired_for_day, ocs) ==
  [events |-> force_poll_list(evs, t, include_expired_for_day, ocs),
   npa |-> npa, bo |-> bo,
   fetched |-> { evs[i].event_id : i \in { j \in DOMAIN evs :
                   /\ ~(t < evs[j].scheduled_time_et)
                   /\ ~((~include_expired_for_day) /\ is_expired_for_day(evs[j], t)) } }]

\* ReleaseWatcher.groups: the keys, and the members of one key
group_of(e) == IF e.group_key = "" THEN e.event_id ELSE e.group_key
groups(evs) == { group_of(evs[i]) : i \in DOMAIN evs }
members(evs, gk) == { i \in DOMAIN evs : group_of(evs[i]) = gk }

\* ---------------------------------------------------------------- aggregator
\* CalendarService.build(start, end): every provider's listing for the
\* window except those of the providers that failed, deduplicated by
\* event_id (first kept), unconfigured events filtered out under
\* post_only_configured_sources, sorted by scheduled time.
RECURSIVE InsertByTime(_, _)
InsertByTime(sorted, e) ==
  IF sorted = << >> THEN << e >>
  ELSE IF e.scheduled_time_et < Head(sorted).scheduled_time_et
    THEN << e >> \o sorted
    ELSE << Head(sorted) >> \o InsertByTime(Tail(sorted), e)

RECURSIVE SortByTime(_, _)
SortByTime(evs, acc) ==
  IF evs = << >> THEN acc ELSE SortByTime(Tail(evs), InsertByTime(acc, Head(evs)))

RECURSIVE DedupById(_, _)
DedupById(evs, acc) ==
  IF evs = << >> THEN acc
  ELSE IF \E j \in DOMAIN acc : acc[j].event_id = Head(evs).event_id
    THEN DedupById(Tail(evs), acc)
    ELSE DedupById(Tail(evs), Append(acc, Head(evs)))

Listing(p, start, end, failed) ==
  IF p \in failed THEN << >>
  ELSE SelectSeq(ProviderCalendar(p),
                 LAMBDA e : start <= e.scheduled_time_et /\ e.scheduled_time_et < end)

build(start, end, failed, only_configured) ==
  LET all == Listing("BLS", start, end, failed) \o Listing("CENSUS", start, end, failed)
      kept == SelectSeq(DedupById(all, << >>),
                        LAMBDA e : (~only_configured) \/ e.provider_configured)
  IN SortByTime(kept, << >>)

\* ---------------------------------------------------------------- main.py
\* (variant: the status is carried over, the release record is not)
merge_event_status_only(e, old_events) ==
  LET hits == { j \in DOMAIN old_events : old_events[j].event_id = e.event_id }
  IN IF hits = {} THEN e
     ELSE [e EXCEPT !.status = old_events[CHOOSE j \in hits : \A k \in hits : k <= j].status]

\* rebuild_calendar, lines 141-148: one fresh event merged with the old list
merge_event(e, old_events) ==
  LET hits == { j \in DOMAIN old_events : old_events[j].event_id = e.event_id }
  IN IF hits = {} THEN e
     ELSE LET old == old_events[CHOOSE j \in hits : \A k \in hits : k <= j]
          IN [e EXCEPT !.status = old.status, !.release = old.release]

\* rebuild_calendar: the new live list
rebuild_calendar(old_events, fresh) ==
  [i \in DOMAIN fresh |-> merge_event(fresh[i], old_events)]

\* (variant: the filter of clean_calendar left out)
clean_events_keep_all(evs, next_week_start) == evs

\* clean_calendar: the events kept
clean_events(evs, next_week_start) ==
  SelectSeq(evs, LAMBDA e : e.scheduled_time_et >= next_week_start)

\* live_monitor_loop, expired pass
active(evs, gk) == { i \in members(evs, gk) : evs[i].status \notin Terminal }

expired_due(evs, gk, t) ==
  \E i \in active(evs, gk) : is_expired_for_day(evs[i], t)

\* (variant: the expired pass passes over a group that has a released member)
expired_groups_all_active(evs, t, rel, exp) ==
  { gk \in groups(evs) :
      /\ gk \notin rel
      /\ gk \notin exp
      /\ active(evs, gk) # {}
      /\ \A i \in members(evs, gk) : evs[i].status # "released"
      /\ expired_due(evs, gk, t) }

expired_groups(evs, t, rel, exp) ==
  { gk \in groups(evs) :
      /\ gk \notin rel
      /\ gk \notin exp
      /\ active(evs, gk) # {}
      /\ expired_due(evs, gk, t) }

mark_missing(evs, G) ==
  [i \in DOMAIN evs |->
     IF group_of(evs[i]) \in G /\ evs[i].status \notin Terminal
       THEN [evs[i] EXCEPT !.status = "missing"]
       ELSE evs[i]]

\* live_monitor_loop, missing pass
earliest(evs, gk) ==
  LET ms == members(evs, gk)
  IN evs[CHOOSE i \in ms : \A j \in ms :
           evs[i].scheduled_time_et <= evs[j].scheduled_time_et].scheduled_time_et

\* (variant: the missing pass without its wait for the burst window)
missing_groups_no_window(evs, t, rel, mis, exp) ==
  { gk \in groups(evs) :
      /\ gk \notin mis /\ gk \notin rel /\ gk \notin exp
      /\ active(evs, gk) # {}
      /\ t >= earliest(evs, gk) }

\* (variant: the missing pass without its test of posted_release_groups)
missing_groups_after_release(evs, t, rel, mis, exp) ==
  { gk \in groups(evs) :
      /\ gk \notin mis /\ gk \notin exp
      /\ active(evs, gk) # {}
      /\ t >= earliest(evs, gk) + burst_window_seconds }

missing_groups(evs, t, rel, mis, exp) ==
  { gk \in groups(evs) :
      /\ gk \notin mis
      /\ gk \notin rel /\ gk \notin exp
      /\ active(evs, gk) # {}
      /\ t >= earliest(evs, gk) + burst_window_seconds }

\* (variant: one released member is enough)
release_ready_any(evs, gk) ==
  \E i \in members(evs, gk) : evs[i].status = "released"

\* live_monitor_loop / rerun_cmd: the release condition of one group
release_ready(evs, gk) ==
  LET non_disabled == { i \in members(evs, gk) : evs[i].status # "disabled" }
      all_released == \A i \in non_disabled : evs[i].status = "released"
      any_actual == \E i \in non_disabled : evs[i].release.actual # "none"
      none_scheduled == \A i \in non_disabled : evs[i].status # "scheduled"
  IN non_disabled # {} /\ (all_released \/ (any_actual /\ none_scheduled))

\* (variant: the released pass without its posted_release_groups test)
released_groups_no_dedup(evs, rel, exp) ==
  { gk \in groups(evs) : gk \notin exp /\ release_ready(evs, gk) }

\* live_monitor_loop, released pass
released_groups(evs, rel, exp) ==
  { gk \in groups(evs) : gk \notin rel /\ gk \notin exp /\ release_ready(evs, gk) }

\* rerun_cmd, lines 355-373
rerun_groups(evs, rel, exp) ==
  { gk \in groups(evs) : release_ready(evs, gk) }

\* (variant: the set is replaced by the keys of this pass)
add_each_replacing(S, G) == G

\* posted.add(gk) for each group gk a pass notifies
add_each(S, G) == S \cup G

Bump(sent, kind, G) ==
  [x \in DOMAIN sent |->
     IF x[1] = kind /\ x[2] \in G THEN Min(sent[x] + 1, MaxSent) ELSE sent[x]]

NoneSent == [x \in Kinds \X GroupKeys |-> 0]

\* ---------------------------------------------------------------- documents
\* The two documents of the cache directory.  What is at a path: nothing, a
\* complete JSON payload, text that does not parse, or (while write_text is
\* running) the beginning of a payload.
Absent == [kind |-> "absent"]
Corrupt == [kind |-> "corrupt"]
Partial == [kind |-> "partial"]
Doc(payload) == [kind |-> "doc", payload |-> payload]

\* the UTC offset of the configured zone (TIMEZONE, America/New_York)
EtOffset == 0 - 5

\* the UTC offset of another zone a process can be configured with (UTC)
UtcOffset == 0

\* An aware datetime: its instant, counted as everywhere in hours on the ET
\* wall clock, and the UTC offset it carries.
Aware(t, off) == [instant |-> t, offset |-> off]

\* a datetime of the handlers: in the configured zone
localize(t) == Aware(t, EtOffset)

\* datetime.isoformat: the wall clock in the datetime's own zone, and the offset
isoformat(d) == [wall |-> d.instant + (d.offset - EtOffset), offset |-> d.offset]

\* datetime.fromisoformat: the instant written, with the offset written
fromisoformat(s) == Aware(s.wall + (EtOffset - s.offset), s.offset)

\* datetime.astimezone: the same instant in the zone of offset off
astimezone(d, off) == Aware(d.instant, off)

\* json.dumps / json.loads of an Optional[str]: None is null
to_json(v) == IF v = "none" THEN "null" ELSE v
from_json(v) == IF v = "null" THEN "none" ELSE v

\* sorted(set): group keys in lexicographic order
KeyOrder == << "census:marts", "cpi", "gdp", "jolts" >>
sorted(S) == SelectSeq(KeyOrder, LAMBDA k : k \in S)
set(seq) == { seq[i] : i \in DOMAIN seq }

\* save_events, lines 21-26: asdict with the timestamps as ISO strings
\* (e.scheduled_time_et an aware datetime)
event_to_dict(e) ==
  [event_id |-> e.event_id, name |-> e.name,
   scheduled_time_et |-> isoformat(e.scheduled_time_et),
   provider |-> e.provider, provider_configured |-> e.provider_configured,
   status |-> e.status, release |-> [actual |-> to_json(e.release.actual)],
   group_key |-> e.group_key]

\* the payload save_events writes for the handlers' list
events_payload(evs) ==
  [i \in DOMAIN evs |->
     event_to_dict([evs[i] EXCEPT !.scheduled_time_et = localize(@)])]

\* (variant: the stored status is not read back)
event_from_dict_default_status(d) ==
  [event_id |-> d.event_id, name |-> d.name,
   scheduled_time_et |-> fromisoformat(d.scheduled_time_et),
   provider |-> d.provider, provider_configured |-> d.provider_configured,
   status |-> "scheduled", release |-> [actual |-> from_json(d.release.actual)],
   group_key |-> d.group_key]

\* load_events, lines 38-61
event_from_dict(d) ==
  [event_id |-> d.event_id, name |-> d.name,
   scheduled_time_et |-> fromisoformat(d.scheduled_time_et),
   provider |-> d.provider, provider_configured |-> d.provider_configured,
   status |-> d.status, release |-> [actual |-> from_json(d.release.actual)],
   group_key |-> d.group_key]

\* load_events, lines 37-62: the list read back, in the document's order
events_from_payload(payload) ==
  [i \in DOMAIN payload |-> event_from_dict(payload[i])]

\* load_events: no file is the empty list; json.loads raises on text that
\* does not parse
load_events(file) ==
  IF file.kind = "absent" THEN [raised |-> FALSE, events |-> << >>]
  ELSE IF file.kind = "doc"
    THEN [raised |-> FALSE,
          events |-> [i \in DOMAIN file.payload |->
                       [events_from_payload(file.payload)[i]
                          EXCEPT !.scheduled_time_et = @.instant]]]
    ELSE [raised |-> TRUE, events |-> << >>]

\* BotState
BotState(start, rel, mis, exp) ==
  [active_start_et |-> start, posted_release_groups |-> rel,
   posted_missing_groups |-> mis, posted_expired_groups |-> exp]

\* default_state
default_state(t) == BotState(monday_start(t), {}, {}, {})

\* save_state, lines 49-54 (st.active_start_et an aware datetime)
state_to_dict(st) ==
  [active_start_et |-> isoformat(st.active_start_et),
   posted_release_groups |-> sorted(st.posted_release_groups),
   posted_missing_groups |-> sorted(st.posted_missing_groups),
   posted_expired_groups |-> sorted(st.posted_expired_groups)]

\* load_state, lines 32-46, with tz_name the zone of offset tz: the start is
\* brought to the configured zone
state_from_dict(raw, tz) ==
  BotState(astimezone(fromisoformat(raw.active_start_et), tz),
           set(raw.posted_release_groups),
           set(raw.posted_missing_groups),
           set(raw.posted_expired_groups))

\* the payload save_state writes for the handlers' state
state_payload(st) ==
  state_to_dict([st EXCEPT !.active_start_et = localize(@)])

\* (variant: the posted sets are not read back)
load_state_without_sets(file, t) ==
  IF file.kind = "absent" THEN [raised |-> FALSE, state |-> default_state(t)]
  ELSE IF file.kind = "doc"
    THEN [raised |-> FALSE,
          state |-> BotState(fromisoformat(file.payload.active_start_et).instant, {}, {}, {})]
    ELSE [raised |-> TRUE, state |-> default_state(t)]

\* load_state at time t
load_state(file, t) ==
  IF file.kind = "absent" THEN [raised |-> FALSE, state |-> default_state(t)]
  ELSE IF file.kind = "doc"
    THEN [raised |-> FALSE,
          state |-> [state_from_dict(file.payload, EtOffset)
                       EXCEPT !.active_start_et = @.instant]]
    ELSE [raised |-> TRUE, state |-> default_state(t)]

\* _events_signature
events_signature(evs) ==
  [i \in DOMAIN evs |->
     << evs[i].event_id, evs[i].status, isoformat(localize(evs[i].scheduled_time_et)),
        evs[i].provider, evs[i].group_key, evs[i].release.actual >>]

\* _state_signature
state_signature(st) ==
  << isoformat(localize(st.active_start_et)), sorted(st.posted_release_groups),
     sorted(st.posted_missing_groups), sorted(st.posted_expired_groups) >>

\* the outcome of one maybe_save_*: the file, the recorded signature, whether
\* a write was made, whether the write raised
Saved(file, sig, wrote, raised) ==
  [file |-> file, sig |-> sig, wrote |-> wrote, raised |-> raised]

\* (variant: maybe_save_events without the signature test)
maybe_save_events_always(evs, last_sig, file, dsk) ==
  IF dsk # "failing" THEN Saved(Doc(events_payload(evs)), events_signature(evs), TRUE, FALSE)
  ELSE Saved(file, last_sig, FALSE, TRUE)

\* maybe_save_events: save_events when the signature differs from the last
\* one recorded; a failing disk makes the write raise, nothing is recorded
maybe_save_events(evs, last_sig, file, dsk) ==
  IF events_signature(evs) # last_sig
    THEN IF dsk # "failing"
           THEN Saved(Doc(events_payload(evs)), events_signature(evs), TRUE, FALSE)
           ELSE Saved(file, last_sig, FALSE, TRUE)
    ELSE Saved(file, last_sig, FALSE, FALSE)

\* maybe_save_state
maybe_save_state(st, last_sig, file, dsk) ==
  IF state_signature(st) # last_sig
    THEN IF dsk # "failing"
           THEN Saved(Doc(state_payload(st)), state_signature(st), TRUE, FALSE)
           ELSE Saved(file, last_sig, FALSE, TRUE)
    ELSE Saved(file, last_sig, FALSE, FALSE)

\* The saves that end a handler: the two maybe_save_* calls in the
\* handler's order (`first`), the one of the events made only when
\* try_events; a save that raises ends the handler, the other is not made.
persist(first, try_events, evs, st, les, lss, ef, sf, dsk) ==
  LET keepE == Saved(ef, les, FALSE, FALSE)
      keepS == Saved(sf, lss, FALSE, FALSE)
      E == IF try_events THEN maybe_save_events(evs, les, ef, dsk) ELSE keepE
      S == maybe_save_state(st, lss, sf, dsk)
  IN IF first = "events"
       THEN [events |-> E, state |-> IF E.raised THEN keepS ELSE S]
       ELSE [state |-> S, events |-> IF S.raised THEN keepE ELSE E]

\* What is at a document's path and at its .tmp sibling, and the steps of
\* save_events / save_state on the pair.
Files(path, tmp) == [path |-> path, tmp |-> tmp]

\* (variant: the document is written in place)
open_in_place(f) == Files(Partial, f.tmp)

\* tmp.write_text, opening: the temporary file exists, its content is not
\* complete yet
open_tmp(f) == Files(f.path, Partial)

\* tmp.write_text, done: the whole payload is in the temporary file
write_text(f, payload) == Files(f.path, Doc(payload))

\* tmp.replace(path): one rename
replace(f) == Files(f.tmp, Absent)

\* no save in progress
NoSave == [queue |-> << >>, step |-> "idle"]

\* the saves a handler ends with, in its order, at their first step
Saves(queue) == [queue |-> queue, step |-> IF queue = << >> THEN "idle" ELSE "call"]

\* no value
Nothing == [tag |-> "nothing"]

VARIABLES
  now,                    \* the wall clock (now_et)
  events,                 \* main: the live event list
  next_poll_at,           \* ReleaseWatcher._next_poll_at
  backoff,                \* ReleaseWatcher._backoff
  active_start_et,        \* BotState.active_start_et
  posted_release_groups,  \* BotState.posted_release_groups
  posted_missing_groups,  \* BotState.posted_missing_groups
  posted_expired_groups,  \* BotState.posted_expired_groups
  live_sent,              \* notifications the live loop sent since the last rollover
  last_op,                \* the handler that produced this state
  events_lock,            \* main: events_lock, the task holding it or "free"
  pc,                     \* where each task stands with respect to the lock
  events_file,            \* what is at cache_path (calendar.json)
  state_file,             \* what is at state_path (state.json)
  last_events_sig,        \* main: last_events_sig
  last_state_sig,         \* main: last_state_sig
  wrote,                  \* the documents the last handler wrote
  disk,                   \* the cache directory: "ok", "failing" (writes raise), "repaired"
  running,                \* whether main() got past its loads
  events_tmp,             \* what is at calendar.tmp
  state_tmp,              \* what is at state.tmp
  save_pc,                \* the documents still to save and the step of the save
  before,                 \* the event list and bot state handed to save_*
  after,                  \* what load_* returned for them
  fetched,                \* the events the last live pass fetched
  stopped,                \* the events a live pass gave up for the day
  raised,                 \* what ended the last handler: "none", or the call that raised
  reply,                  \* what the last command sent to its caller
  send_failed,            \* the live notifications whose send raised
  tried                   \* the events the live loop has fetched since the start

mem_vars == << now, events, next_poll_at, backoff, active_start_et,
               posted_release_groups, posted_missing_groups, posted_expired_groups,
               live_sent, last_op >>

lock_vars == << events_lock, pc >>

store_vars == << events_file, state_file, last_events_sig, last_state_sig, wrote >>

env_vars == << disk, running >>

\* what the runs record about the passes
watch_vars == << fetched, stopped, tried >>

fail_vars == << raised, reply, send_failed >>

obs_vars == << watch_vars, fail_vars >>

save_vars == << events_tmp, state_tmp, save_pc, before, after, obs_vars >>

vars == << mem_vars, lock_vars, store_vars, env_vars, save_vars >>

Documents == {"events", "state"}

Tasks == {"scheduled_job", "weekly_clean_job", "live_monitor_loop",
          "calendar_cmd", "clean_cmd", "rerun_cmd"}

\* ---------------------------------------------------------------- actions
\* main(): nothing cached, the default bot state
InitData ==
  /\ events = << >>
  /\ next_poll_at = EmptyDict
  /\ backoff = EmptyDict
  /\ active_start_et = monday_start(StartTime)
  /\ posted_release_groups = {}
  /\ posted_missing_groups = {}
  /\ posted_expired_groups = {}
  /\ live_sent = NoneSent
  /\ last_op = "other"
  /\ events_lock = "free"
  /\ pc = [t \in Tasks |-> "idle"]
  /\ events_file = Absent
  /\ state_file = Absent
  /\ last_events_sig = events_signature(<< >>)
  /\ last_state_sig = state_signature(BotState(active_start_et, {}, {}, {}))
  /\ wrote = {}
  /\ disk = "ok"
  /\ running = TRUE
  /\ events_tmp = Absent
  /\ state_tmp = Absent
  /\ save_pc = NoSave
  /\ before = Nothing
  /\ after = Nothing
  /\ fetched = {}
  /\ stopped = {}
  /\ raised = "none"
  /\ reply = "none"
  /\ send_failed = {}
  /\ tried = {}

\* what the handler's closing saves leave in the cache directory
StoreAfter(p) ==
  /\ events_file' = p.events.file
  /\ last_events_sig' = p.events.sig
  /\ state_file' = p.state.file
  /\ last_state_sig' = p.state.sig
  /\ wrote' = (IF p.events.wrote THEN {"events"} ELSE {})
                 \cup (IF p.state.wrote THEN {"state"} ELSE {})

Init == now = StartTime /\ InitData

\* the clock moves on
Advance ==
  /\ now < MaxTime
  /\ now' = now + 1
  /\ last_op' = "other"
  /\ UNCHANGED << events, next_poll_at, backoff, active_start_et,
                  posted_release_groups, posted_missing_groups, posted_expired_groups,
                  live_sent >>

\* scheduled_job / calendar_cmd: rebuild_calendar, inside the lock
Rebuild ==
  \E failed \in Failures :
    LET start == Max(active_start_et, week_bounds_et(now))
        end == start + WindowDays * HoursPerDay
        fresh == build(start, end, failed, post_only_configured_sources)
    IN /\ events' = rebuild_calendar(events, fresh)
       /\ last_op' = "rebuild"
       /\ UNCHANGED << now, next_poll_at, backoff, active_start_et,
                       posted_release_groups, posted_missing_groups, posted_expired_groups,
                       live_sent >>

\* weekly_clean_job / clean_cmd: clean_calendar, inside the lock
Clean ==
  LET next_week_start == week_bounds_et(now) + DaysPerWeek * HoursPerDay
  IN /\ active_start_et' = next_week_start
     /\ posted_release_groups' = {}
     /\ posted_missing_groups' = {}
     /\ posted_expired_groups' = {}
     /\ events' = clean_events(events, next_week_start)
     /\ live_sent' = NoneSent
     /\ last_op' = "clean"
     /\ UNCHANGED << now, next_poll_at, backoff >>

\* one pass of live_monitor_loop, inside the lock, when the sources answer ocs
TickWith(ocs) ==
    IF events = << >>
      THEN /\ last_op' = "tick"
           /\ UNCHANGED << now, events, next_poll_at, backoff, active_start_et,
                           posted_release_groups, posted_missing_groups,
                           posted_expired_groups, live_sent >>
      ELSE
        \E r \in {check_due_live_once(events, now, next_poll_at, backoff, ocs)} :
        \E Gexp \in {expired_groups(r.events, now, posted_release_groups, posted_expired_groups)} :
        \E evs2 \in {mark_missing(r.events, Gexp)} :
        \E exp2 \in {add_each(posted_expired_groups, Gexp)} :
        \E Gmis \in {missing_groups(evs2, now, posted_release_groups, posted_missing_groups, exp2)} :
        \E Grel \in {released_groups(evs2, posted_release_groups, exp2)} :
           /\ events' = evs2
           /\ next_poll_at' = r.npa
           /\ backoff' = r.bo
           /\ posted_expired_groups' = exp2
           /\ posted_missing_groups' = add_each(posted_missing_groups, Gmis)
           /\ posted_release_groups' = add_each(posted_release_groups, Grel)
           /\ live_sent' = Bump(Bump(Bump(live_sent, "expired", Gexp), "missing", Gmis),
                                "released", Grel)
           /\ last_op' = "tick"
           /\ UNCHANGED << now, active_start_et >>

\* one pass of live_monitor_loop, inside the lock
Tick == \E ocs \in Answers : TickWith(ocs)

\* rerun_cmd, inside the lock
Rerun ==
  \E ocs \in Answers :
    LET r == force_poll_once(events, now, next_poll_at, backoff, TRUE, ocs)
        G == rerun_groups(r.events, posted_release_groups, posted_expired_groups)
    IN /\ events' = r.events
       /\ next_poll_at' = r.npa
       /\ backoff' = r.bo
       /\ posted_release_groups' = add_each(posted_release_groups, G)
       /\ last_op' = "rerun"
       /\ UNCHANGED << now, active_start_et, posted_missing_groups,
                       posted_expired_groups, live_sent >>

\* The handlers one after another, each a whole critical section, as the
\* memory of the process sees them.  The documents the handlers write do not
\* feed back into the memory of a running process; the handlers with their
\* closing saves, restarts included, are SpecStore below.
Next ==
  \/ Advance /\ UNCHANGED << lock_vars, store_vars, env_vars, save_vars >>
  \/ Rebuild /\ UNCHANGED << lock_vars, store_vars, env_vars, save_vars >>
  \/ Clean /\ UNCHANGED << lock_vars, store_vars, env_vars, save_vars >>
  \/ Tick /\ UNCHANGED << lock_vars, store_vars, env_vars, save_vars >>
  \/ Rerun /\ UNCHANGED << lock_vars, store_vars, env_vars, save_vars >>

Spec == Init /\ [][Next]_vars

\* ---------------------------------------------------------------- the lock
\* (variant: a handler that does not take the lock)
can_acquire_unguarded(lock) == TRUE

\* `async with events_lock`: a task enters when nobody holds the lock
can_acquire(lock) == lock = "free"

\* what each task does inside the lock
Body(t) ==
  CASE t \in {"scheduled_job", "calendar_cmd"} -> Rebuild
    [] t \in {"weekly_clean_job", "clean_cmd"} -> Clean
    [] t = "live_monitor_loop" -> Tick
    [] OTHER -> Rerun

\* a timer or a command starts the task, which asks for the lock
Request(t) ==
  /\ pc[t] = "idle"
  /\ pc' = [pc EXCEPT ![t] = "waiting"]
  /\ UNCHANGED << mem_vars, events_lock, store_vars, env_vars, save_vars >>

Acquire(t) ==
  /\ pc[t] = "waiting"
  /\ can_acquire(events_lock)
  /\ events_lock' = t
  /\ pc' = [pc EXCEPT ![t] = "locked"]
  /\ UNCHANGED << mem_vars, store_vars, env_vars, save_vars >>

\* the handler's work, up to its last await inside the lock
Work(t) ==
  /\ pc[t] = "locked"
  /\ Body(t)
  /\ pc' = [pc EXCEPT ![t] = "awaiting"]
  /\ UNCHANGED << events_lock, store_vars, env_vars, save_vars >>

\* the end of the `async with` block
Release(t) ==
  /\ pc[t] = "awaiting"
  /\ events_lock' = "free"
  /\ pc' = [pc EXCEPT ![t] = "idle"]
  /\ UNCHANGED << mem_vars, store_vars, env_vars, save_vars >>

InitLock == now = SundayRelease /\ InitData

NextLock == \E t \in Tasks : Request(t) \/ Acquire(t) \/ Work(t) \/ Release(t)

SpecLock == InitLock /\ [][NextLock]_vars

\* ---------------------------------------------------------------- the store
\* The handlers with the saves that close them, a failing disk, a damaged
\* document and restarts of the process.

\* the bot state after the step
state_after ==
  BotState(active_start_et', posted_release_groups', posted_missing_groups',
           posted_expired_groups')

\* scheduled_job / calendar_cmd: maybe_save_events, then maybe_save_state
RebuildSaves ==
  StoreAfter(persist("events", TRUE, events', state_after,
                     last_events_sig, last_state_sig, events_file, state_file, disk))

\* clean_calendar: maybe_save_state, then maybe_save_events
CleanSaves ==
  StoreAfter(persist("state", TRUE, events', state_after,
                     last_events_sig, last_state_sig, events_file, state_file, disk))

\* live_monitor_loop, lines 283-286, and rerun_cmd, lines 375-379:
\* maybe_save_events when the events' signature changed in the handler, then
\* maybe_save_state; nothing when the live loop finds no events
ChangePersist ==
  persist("events", events_signature(events') # events_signature(events),
          events', state_after,
          last_events_sig, last_state_sig, events_file, state_file, disk)

ChangeSaves ==
  IF last_op' = "tick" /\ events = << >>
    THEN wrote' = {} /\ UNCHANGED << events_file, state_file, last_events_sig, last_state_sig >>
    ELSE StoreAfter(ChangePersist)

\* the hour before the cutoff of the release day: the Census events are
\* past their burst window and still polled
StoreStart == SundayRelease + 5

InitStore == now = StoreStart /\ InitData

RebuildStore ==
  running /\ Rebuild /\ RebuildSaves /\ UNCHANGED << lock_vars, env_vars, save_vars >>

CleanStore ==
  running /\ Clean /\ CleanSaves /\ UNCHANGED << lock_vars, env_vars, save_vars >>

TickStore ==
  running /\ Tick /\ ChangeSaves /\ UNCHANGED << lock_vars, env_vars, save_vars >>

RerunStore ==
  running /\ Rerun /\ ChangeSaves /\ UNCHANGED << lock_vars, env_vars, save_vars >>

\* the cache directory stops accepting writes, once, and is repaired
DiskFault ==
  /\ disk \in {"ok", "failing"}
  /\ disk' = (IF disk = "ok" THEN "failing" ELSE "repaired")
  /\ last_op' = "other"
  /\ wrote' = {}
  /\ UNCHANGED << now, events, next_poll_at, backoff, active_start_et,
                  posted_release_groups, posted_missing_groups, posted_expired_groups,
                  live_sent, events_file, state_file, last_events_sig, last_state_sig,
                  running, lock_vars, save_vars >>

\* a document is damaged on disk
CorruptFile ==
  /\ \E d \in Documents :
       IF d = "events"
         THEN events_file.kind = "doc" /\ events_file' = Corrupt /\ UNCHANGED state_file
         ELSE state_file.kind = "doc" /\ state_file' = Corrupt /\ UNCHANGED events_file
  /\ last_op' = "other"
  /\ wrote' = {}
  /\ UNCHANGED << now, events, next_poll_at, backoff, active_start_et,
                  posted_release_groups, posted_missing_groups, posted_expired_groups,
                  live_sent, last_events_sig, last_state_sig,
                  env_vars, lock_vars, save_vars >>

\* The process is started again: main() loads the two documents, builds a
\* new watcher and runs scheduled_job once before the live loop starts.  A
\* load that raises ends main().
Restart ==
  LET le == load_events(events_file)
      ls == load_state(state_file, now)
  IN /\ last_op' = "restart"
     /\ UNCHANGED << now, live_sent, disk, lock_vars, save_vars >>
     /\ next_poll_at' = EmptyDict
     /\ backoff' = EmptyDict
     /\ IF le.raised \/ ls.raised
          THEN /\ running' = FALSE
               /\ events' = << >>
               /\ posted_release_groups' = {}
               /\ posted_missing_groups' = {}
               /\ posted_expired_groups' = {}
               /\ wrote' = {}
               /\ UNCHANGED << active_start_et, events_file, state_file,
                               last_events_sig, last_state_sig >>
          ELSE /\ running' = TRUE
               /\ active_start_et' = ls.state.active_start_et
               /\ posted_release_groups' = ls.state.posted_release_groups
               /\ posted_missing_groups' = ls.state.posted_missing_groups
               /\ posted_expired_groups' = ls.state.posted_expired_groups
               /\ \E failed \in Failures :
                    LET start == Max(ls.state.active_start_et, week_bounds_et(now))
                        end == start + WindowDays * HoursPerDay
                        fresh == build(start, end, failed, post_only_configured_sources)
                    IN events' = rebuild_calendar(le.events, fresh)
               /\ StoreAfter(persist("events", TRUE, events', ls.state,
                                     events_signature(le.events), state_signature(ls.state),
                                     events_file, state_file, disk))

NextStore ==
  \/ RebuildStore
  \/ CleanStore
  \/ TickStore
  \/ RerunStore
  \/ DiskFault
  \/ CorruptFile
  \/ Restart

SpecStore == InitStore /\ [][NextStore]_vars

\* ------------------------------------------------------- the steps of a save
\* save_events / save_state one file operation at a time, with the process
\* killed between any two of them and started again.  The cache directory
\* is otherwise left alone.

SaveIdle == save_pc.step = "idle"

\* a handler and the saves it ends with
HandlerThenSaves(handler, queue) ==
  /\ running
  /\ SaveIdle
  /\ handler
  /\ save_pc' = Saves(queue)
  /\ UNCHANGED << lock_vars, store_vars, env_vars, events_tmp, state_tmp, before, after, obs_vars >>

RebuildSave == HandlerThenSaves(Rebuild, << "events", "state" >>)

CleanSave == HandlerThenSaves(Clean, << "state", "events" >>)

\* live_monitor_loop, lines 283-286, and rerun_cmd, lines 375-379
ChangeQueue ==
  IF last_op' = "tick" /\ events = << >> THEN << >>
  ELSE IF events_signature(events') # events_signature(events)
    THEN << "events", "state" >>
    ELSE << "state" >>

TickSave == HandlerThenSaves(Tick, ChangeQueue)

RerunSave == HandlerThenSaves(Rerun, ChangeQueue)

\* the document being saved
SaveDoc == Head(save_pc.queue)

\* the save of this document is over: on to the next one
SaveNext == save_pc' = Saves(Tail(save_pc.queue))

\* maybe_save_events / maybe_save_state: the signature test
CallSave ==
  /\ running
  /\ save_pc.step = "call"
  /\ IF (IF SaveDoc = "events"
           THEN events_signature(events) # last_events_sig
           ELSE state_signature(BotState(active_start_et, posted_release_groups,
                                         posted_missing_groups, posted_expired_groups))
                  # last_state_sig)
       THEN save_pc' = [save_pc EXCEPT !.step = "open"]
       ELSE SaveNext
  /\ UNCHANGED << mem_vars, lock_vars, store_vars, env_vars, events_tmp, state_tmp,
                  before, after, obs_vars >>

\* the path and the temporary file of the document being saved
SaveFiles ==
  IF SaveDoc = "events" THEN Files(events_file, events_tmp)
  ELSE Files(state_file, state_tmp)

\* one file operation of save_events / save_state, leaving the pair as f
FileStep(step, next, f) ==
  /\ running
  /\ save_pc.step = step
  /\ IF SaveDoc = "events"
       THEN /\ events_file' = f.path
            /\ events_tmp' = f.tmp
            /\ UNCHANGED << state_file, state_tmp >>
       ELSE /\ state_file' = f.path
            /\ state_tmp' = f.tmp
            /\ UNCHANGED << events_file, events_tmp >>
  /\ IF next = "done"
       THEN /\ SaveNext
            /\ IF SaveDoc = "events"
                 THEN /\ last_events_sig' = events_signature(events)
                      /\ UNCHANGED last_state_sig
                 ELSE /\ last_state_sig' =
                           state_signature(BotState(active_start_et, posted_release_groups,
                                                    posted_missing_groups, posted_expired_groups))
                      /\ UNCHANGED last_events_sig
       ELSE /\ save_pc' = [save_pc EXCEPT !.step = next]
            /\ UNCHANGED << last_events_sig, last_state_sig >>
  /\ UNCHANGED << mem_vars, lock_vars, wrote, env_vars, before, after, obs_vars >>

\* the payload of the document being saved
SavePayload ==
  IF SaveDoc = "events" THEN events_payload(events)
  ELSE state_payload(BotState(active_start_et, posted_release_groups,
                              posted_missing_groups, posted_expired_groups))

OpenTmp == FileStep("open", "flush", open_tmp(SaveFiles))

FlushTmp == FileStep("flush", "replace", write_text(SaveFiles, SavePayload))

\* tmp.replace(path); back in maybe_save_*, the signature is recorded
ReplaceTmp == FileStep("replace", "done", replace(SaveFiles))

\* the process is killed; the files stay as they are
Crash ==
  /\ running
  /\ running' = FALSE
  /\ save_pc' = NoSave
  /\ last_op' = "other"
  /\ UNCHANGED << now, events, next_poll_at, backoff, active_start_et,
                  posted_release_groups, posted_missing_groups, posted_expired_groups,
                  live_sent, lock_vars, store_vars, disk, events_tmp, state_tmp,
                  before, after, obs_vars >>

\* main(), lines 99-103 and 392: the loads, then the first scheduled_job
StartAgain ==
  LET le == load_events(events_file)
      ls == load_state(state_file, now)
  IN /\ ~running
     /\ ~le.raised /\ ~ls.raised
     /\ running' = TRUE
     /\ last_op' = "restart"
     /\ next_poll_at' = EmptyDict
     /\ backoff' = EmptyDict
     /\ active_start_et' = ls.state.active_start_et
     /\ posted_release_groups' = ls.state.posted_release_groups
     /\ posted_missing_groups' = ls.state.posted_missing_groups
     /\ posted_expired_groups' = ls.state.posted_expired_groups
     /\ last_events_sig' = events_signature(le.events)
     /\ last_state_sig' = state_signature(ls.state)
     /\ \E failed \in Failures :
          LET start == Max(ls.state.active_start_et, week_bounds_et(now))
              end == start + WindowDays * HoursPerDay
              fresh == build(start, end, failed, post_only_configured_sources)
          IN events' = rebuild_calendar(le.events, fresh)
     /\ save_pc' = Saves(<< "events", "state" >>)
     /\ UNCHANGED << now, live_sent, lock_vars, events_file, state_file, wrote, disk,
                     events_tmp, state_tmp, before, after, obs_vars >>

InitSave == now = StoreStart /\ InitData

NextSave ==
  \/ RebuildSave
  \/ CleanSave
  \/ TickSave
  \/ RerunSave
  \/ CallSave
  \/ OpenTmp
  \/ FlushTmp
  \/ ReplaceTmp
  \/ Crash
  \/ StartAgain

SpecSave == InitSave /\ [][NextSave]_vars

\* --------------------------------------------------------------- round trips
\* save_events then load_events, save_state then load_state, on event lists
\* and bot states whose datetimes carry the offset of the zone they were
\* made in: the configured zone, or the zone of an earlier configuration.

Offsets == {EtOffset, UtcOffset}

\* the events of a list: a Census event and the JOLTS placeholder, in every
\* status, with and without an actual, at either offset
CodecEvent ==
  { [e EXCEPT !.status = st, !.release = [actual |-> a],
              !.scheduled_time_et = Aware(@, off)] :
      e \in {CensusCalendar[1], BLSCalendar[1]},
      st \in {"scheduled", "released", "missing", "disabled"},
      a \in {"none", "v"}, off \in Offsets }

\* the lists: empty, one event, or one event followed by the second Census event
CodecEvents ==
  {<< >>} \cup { << e >> : e \in CodecEvent }
    \cup { << e, [CensusCalendar[2] EXCEPT !.scheduled_time_et = localize(@)] >> :
             e \in CodecEvent }

CodecKeys == {"census:marts", "jolts"}

\* Monday 00:00 on the wall clock of the zone of offset off
monday_in(off) == Aware(monday_start(StartTime) - (off - EtOffset), off)

\* the states: the start of the week in either zone, any keys in the sets
CodecStates ==
  { BotState(monday_in(off), rel, mis, exp) :
      off \in Offsets, rel \in SUBSET CodecKeys, mis \in SUBSET CodecKeys,
      exp \in SUBSET {"census:marts"} }

InitCodec ==
  /\ now = StartTime
  /\ InitData

\* the list and the state to save
Choose ==
  /\ before = Nothing
  /\ \E evs \in CodecEvents, st \in CodecStates :
       before' = [tag |-> "memory", events |-> evs, state |-> st]
  /\ UNCHANGED << mem_vars, lock_vars, store_vars, env_vars,
                  events_tmp, state_tmp, save_pc, after,
                  obs_vars >>

\* save_events(cache_path, events); save_state(state_path, state)
SaveBoth ==
  /\ before # Nothing
  /\ events_file = Absent
  /\ LET fe == replace(write_text(open_tmp(Files(events_file, events_tmp)),
                                  [i \in DOMAIN before.events |->
                                     event_to_dict(before.events[i])]))
         fs == replace(write_text(open_tmp(Files(state_file, state_tmp)),
                                  state_to_dict(before.state)))
     IN /\ events_file' = fe.path /\ events_tmp' = fe.tmp
        /\ state_file' = fs.path /\ state_tmp' = fs.tmp
  /\ UNCHANGED << mem_vars, lock_vars, last_events_sig, last_state_sig, wrote,
                  env_vars, save_pc, before, after,
                  obs_vars >>

\* load_events(cache_path); load_state(state_path, tz_name) in a process
\* configured with the default zone
LoadBoth ==
  /\ events_file.kind = "doc"
  /\ state_file.kind = "doc"
  /\ after = Nothing
  /\ after' = [tag |-> "loaded",
               events |-> events_from_payload(events_file.payload),
               state |-> state_from_dict(state_file.payload, EtOffset)]
  /\ UNCHANGED << mem_vars, lock_vars, store_vars, env_vars,
                  events_tmp, state_tmp, save_pc, before,
                  obs_vars >>

NextCodec ==
  \/ Choose
  \/ SaveBoth
  \/ LoadBoth

SpecCodec == InitCodec /\ [][NextCodec]_vars

\* --------------------------------------------------------------- the watcher
\* The live passes of the release watcher alone, on a week whose list holds
\* a Census event, a BEA event (its fetch marks it missing), the JOLTS
\* placeholder (its fetch disables it) and next week's CPI event.

\* BEAProvider.build_calendar: Advance GDP q/q, listed for the same morning
BEACalendar ==
  << MkEvent("bea:gdp", "Advance GDP q/q", SundayRelease, "BEA", TRUE, "gdp") >>

\* the live list after the rebuild of such a week, sorted by scheduled time
WatchCalendar ==
  << CensusCalendar[1], BEACalendar[1], BLSCalendar[1], BLSCalendar[2] >>

\* what the Census source answers in one pass
WatchAnswers == [{"census:retail"} -> Outcomes]

InitWatch ==
  /\ now = StartTime
  /\ InitData

\* main(), line 392: the first scheduled_job lists the week
FirstBuild ==
  /\ events = << >>
  /\ events' = WatchCalendar
  /\ last_op' = "rebuild"
  /\ UNCHANGED << now, next_poll_at, backoff, active_start_et, posted_release_groups,
                  posted_missing_groups, posted_expired_groups, live_sent,
                  lock_vars, store_vars, env_vars, save_vars >>

\* one pass of check_due_live_once at the clock's reading
LivePass ==
  /\ events # << >>
  /\ \E ocs \in WatchAnswers :
    LET r == check_due_live_once(events, now, next_poll_at, backoff, ocs)
    IN /\ events' = r.events
       /\ next_poll_at' = r.npa
       /\ backoff' = r.bo
       /\ fetched' = r.fetched
       /\ tried' = tried \cup r.fetched
       /\ stopped' = stopped \cup
            { events[i].event_id : i \in { j \in DOMAIN events :
                  /\ events[j].event_id \in r.fetched
                  /\ r.events[j].status # "released"
                  /\ now + burst_poll_seconds >= cutoff_dt(events[j]) } }
       /\ last_op' = "tick"
       /\ UNCHANGED << now, active_start_et, posted_release_groups, posted_missing_groups,
                       posted_expired_groups, live_sent, lock_vars, store_vars, env_vars,
                       events_tmp, state_tmp, save_pc, before, after, fail_vars >>

AdvanceWatch ==
  /\ Advance
  /\ fetched' = {}
  /\ UNCHANGED << stopped, tried, lock_vars, store_vars, env_vars,
                  events_tmp, state_tmp, save_pc, before, after, fail_vars >>

NextWatch ==
  \/ FirstBuild
  \/ AdvanceWatch
  \/ LivePass

SpecWatch == InitWatch /\ [][NextWatch]_vars

\* --------------------------------------------------------------- failures
\* The live loop and the two commands !calendar and !rerun with what can
\* raise inside them: a notification send, a save on a failing disk.  The
\* live loop takes the lock, runs its body and leaves the `async with`
\* block in three steps; a command is one step taken while the lock is free.

Loop == "live_monitor_loop"

\* the place of a group in watcher.groups(events): dict order, the order of
\* the first member in the list
GroupIndex(evs, gk) ==
  CHOOSE i \in members(evs, gk) : \A j \in members(evs, gk) : i <= j

\* the groups of a pass whose send was called when the send for gk raises
attempted(evs, G, gk) ==
  { g \in G : GroupIndex(evs, g) <= GroupIndex(evs, gk) }

\* (variant: the key is added to the posted set after the send returned)
flagged_after_send(evs, G, gk) ==
  { g \in G : GroupIndex(evs, g) < GroupIndex(evs, gk) }

\* the groups of a pass whose key is in the posted set when the send for gk
\* raises: state.posted_*_groups.add(gk) comes before the send
flagged(evs, G, gk) ==
  { g \in G : GroupIndex(evs, g) <= GroupIndex(evs, gk) }

\* (variant: the lock is released only when the block ends without raising)
async_with_exit_on_success(lock, exc) == IF exc = "none" THEN "free" ELSE lock

\* the end of `async with events_lock`, reached by return or by exception
async_with_exit(lock, exc) == "free"

\* the week the commands rebuild: the listing with the BEA event
FailBuild == rebuild_calendar(events, WatchCalendar)

\* the process is started in the hour before the cutoff or at the cutoff
FailStarts == {StoreStart, StoreStart + 1}

InitFail == now \in FailStarts /\ InitData

\* `async with events_lock` of the live loop
TickEnter ==
  /\ pc[Loop] = "idle"
  /\ can_acquire(events_lock)
  /\ events_lock' = Loop
  /\ pc' = [pc EXCEPT ![Loop] = "locked"]
  /\ UNCHANGED << mem_vars, store_vars, env_vars, save_vars >>

\* the body of the tick with every send returning; a save may raise
TickBody ==
  /\ pc[Loop] = "locked"
  /\ Tick
  /\ ChangeSaves
  /\ raised' = (IF events # << >> /\ (ChangePersist.events.raised \/ ChangePersist.state.raised)
                  THEN "save" ELSE "none")
  /\ pc' = [pc EXCEPT ![Loop] = "leaving"]
  /\ UNCHANGED << events_lock, env_vars, events_tmp, state_tmp, save_pc, before, after,
                  watch_vars, reply, send_failed >>

\* one pass over the groups G that are due in it: every group when no send
\* raises, the groups up to gk when the send for gk raises
pass_until(evs, G, raises, gk) ==
  [ failed |-> raises,
    attempted |-> IF raises THEN attempted(evs, G, gk) ELSE G,
    flagged |-> IF raises THEN flagged(evs, G, gk) ELSE G ]

\* the missing pass and the released pass that follow the expired pass E;
\* a pass is not reached when a send of an earlier pass raised
passes_after_expired(evs2, t, rel, mis, exp2, E, k, gk) ==
  LET Gmis == IF E.failed THEN {} ELSE missing_groups(evs2, t, rel, mis, exp2)
      Mi == pass_until(evs2, Gmis, k = "missing" /\ gk \in Gmis, gk)
      Grel == IF E.failed \/ Mi.failed THEN {} ELSE released_groups(evs2, rel, exp2)
      Re == pass_until(evs2, Grel, k = "released" /\ gk \in Grel, gk)
  IN [ events |-> evs2, expired |-> E, missing |-> Mi, released |-> Re ]

\* the three passes of a tick in which the send of kind k for gk raises
passes_until_raise(evs, t, rel, mis, exp, k, gk) ==
  LET Gexp == expired_groups(evs, t, rel, exp)
      E == pass_until(evs, Gexp, k = "expired" /\ gk \in Gexp, gk)
  IN passes_after_expired(mark_missing(evs, E.attempted), t, rel, mis,
                          exp \cup E.flagged, E, k, gk)

\* the body of the tick when the send of the notification of kind k for the
\* group gk raises: the passes up to that send, then the except clause
TickBodyFailing ==
  /\ pc[Loop] = "locked"
  /\ events # << >>
  /\ \E ocs \in Answers, k \in Kinds, gk \in GroupKeys :
       \E r \in {check_due_live_once(events, now, next_poll_at, backoff, ocs)} :
       \E p \in {passes_until_raise(r.events, now, posted_release_groups,
                                    posted_missing_groups, posted_expired_groups, k, gk)} :
          /\ p.expired.failed \/ p.missing.failed \/ p.released.failed
          /\ events' = p.events
          /\ next_poll_at' = r.npa
          /\ backoff' = r.bo
          /\ posted_expired_groups' = add_each(posted_expired_groups, p.expired.flagged)
          /\ posted_missing_groups' = add_each(posted_missing_groups, p.missing.flagged)
          /\ posted_release_groups' = add_each(posted_release_groups, p.released.flagged)
          /\ live_sent' = Bump(Bump(Bump(live_sent, "expired", p.expired.attempted),
                                    "missing", p.missing.attempted),
                               "released", p.released.attempted)
          /\ send_failed' = send_failed \cup {<< k, gk >>}
  /\ raised' = "send"
  /\ last_op' = "tick"
  /\ wrote' = {}
  /\ pc' = [pc EXCEPT ![Loop] = "leaving"]
  /\ UNCHANGED << now, active_start_et, events_lock, events_file, state_file,
                  last_events_sig, last_state_sig, env_vars, events_tmp, state_tmp,
                  save_pc, before, after, watch_vars, reply >>

\* the `async with` block is left, the except clause logs, the loop sleeps
TickExit ==
  /\ pc[Loop] = "leaving"
  /\ events_lock' = async_with_exit(events_lock, raised)
  /\ pc' = [pc EXCEPT ![Loop] = "idle"]
  /\ UNCHANGED << mem_vars, store_vars, env_vars, save_vars >>

\* calendar_cmd: rebuild, saves, then the embeds sent to the caller
CalendarCmd ==
  /\ can_acquire(events_lock)
  /\ events' = FailBuild
  /\ last_op' = "rebuild"
  /\ UNCHANGED << now, next_poll_at, backoff, active_start_et, posted_release_groups,
                  posted_missing_groups, posted_expired_groups, live_sent >>
  /\ RebuildSaves
  /\ LET p == persist("events", TRUE, events', state_after,
                      last_events_sig, last_state_sig, events_file, state_file, disk)
     IN IF p.events.raised \/ p.state.raised
          THEN raised' = "save" /\ reply' = "none"
          ELSE raised' = "none" /\ reply' = "embeds"
  /\ UNCHANGED << lock_vars, env_vars, events_tmp, state_tmp, save_pc, before, after,
                  watch_vars, send_failed >>

\* rerun_cmd with every send returning; a save may raise
RerunCmd ==
  /\ can_acquire(events_lock)
  /\ Rerun
  /\ ChangeSaves
  /\ IF ChangePersist.events.raised \/ ChangePersist.state.raised
       THEN raised' = "save" /\ reply' = "none"
       ELSE raised' = "none" /\ reply' = "rerun complete"
  /\ UNCHANGED << lock_vars, env_vars, events_tmp, state_tmp, save_pc, before, after,
                  watch_vars, send_failed >>

\* rerun_cmd when the send of the release notification for gk raises
RerunCmdFailing ==
  /\ can_acquire(events_lock)
  /\ \E ocs \in Answers, gk \in GroupKeys :
       \E r \in {force_poll_once(events, now, next_poll_at, backoff, TRUE, ocs)} :
       \E G \in {rerun_groups(r.events, posted_release_groups, posted_expired_groups)} :
          /\ gk \in G
          /\ events' = r.events
          /\ next_poll_at' = r.npa
          /\ backoff' = r.bo
          /\ posted_release_groups' = add_each(posted_release_groups, flagged(r.events, G, gk))
  /\ raised' = "send"
  /\ reply' = "none"
  /\ last_op' = "rerun"
  /\ wrote' = {}
  /\ UNCHANGED << now, active_start_et, posted_missing_groups, posted_expired_groups,
                  live_sent, lock_vars, events_file, state_file, last_events_sig,
                  last_state_sig, env_vars, events_tmp, state_tmp, save_pc, before, after,
                  watch_vars, send_failed >>

NextFail ==
  \/ TickEnter
  \/ TickBody
  \/ TickBodyFailing
  \/ TickExit
  \/ CalendarCmd
  \/ RerunCmd
  \/ RerunCmdFailing
  \/ DiskFault

SpecFail == InitFail /\ [][NextFail]_vars

\* the event loop keeps running the live loop's coroutine: a block that has
\* ended is left, the sleep ends, and the free lock is taken
SpecFailFair == SpecFail /\ WF_vars(TickExit) /\ WF_vars(TickEnter)

\* ---------------------------------------------------------------- the rollover
\* The night from Sunday to Monday: the refresh job, the live loop, and the
\* weekly clean job, which the scheduler fires at Monday 00:05.

\* the last hour of the week in which the process was started
InitWeek == now = HoursPerWeek - 1 /\ InitData

\* the clock moves on; the hour after Monday 00:00 is not reached before the
\* cron job of 00:05 has run
AdvanceWeek ==
  /\ now <= NextWeekRelease
  /\ (now % HoursPerWeek = 0) => active_start_et > now
  /\ now' = now + 1
  /\ last_op' = "other"
  /\ UNCHANGED << events, next_poll_at, backoff, active_start_et,
                  posted_release_groups, posted_missing_groups, posted_expired_groups,
                  live_sent >>

\* weekly_clean_job: cron, day_of_week="mon", hour=0, minute=5
WeeklyClean ==
  /\ now % HoursPerWeek = 0
  /\ active_start_et <= now
  /\ Clean

NextWeek ==
  \/ AdvanceWeek /\ UNCHANGED << lock_vars, store_vars, env_vars, save_vars >>
  \/ WeeklyClean /\ UNCHANGED << lock_vars, store_vars, env_vars, save_vars >>
  \/ Rebuild /\ UNCHANGED << lock_vars, store_vars, env_vars, save_vars >>
  \/ Tick /\ UNCHANGED << lock_vars, store_vars, env_vars, save_vars >>
  \/ Rerun /\ UNCHANGED << lock_vars, store_vars, env_vars, save_vars >>

SpecWeek == InitWeek /\ [][NextWeek]_vars

\* ---------------------------------------------------------------- the live day
\* The release day from the start of the process to the evening, with the
\* live loop alone: a week in which the BLS schedule gives CPI m/m a release
\* time of 6:00 PM, after the cutoff hour.
EveningRelease == 6 * HoursPerDay + CutoffHour + 1

LiveCalendar ==
  << CensusCalendar[1], CensusCalendar[2], BLSCalendar[1],
     MkEvent("bls:cpi", "CPI m/m", EveningRelease, "BLS", TRUE, "cpi") >>

\* main(), line 392: the first scheduled_job lists the week
LiveBuild ==
  /\ events = << >>
  /\ events' = LiveCalendar
  /\ last_op' = "rebuild"
  /\ UNCHANGED << now, next_poll_at, backoff, active_start_et, posted_release_groups,
                  posted_missing_groups, posted_expired_groups, live_sent,
                  lock_vars, store_vars, env_vars, save_vars >>

\* a tick of the live loop, every send returning
TickLive ==
  /\ events # << >>
  /\ \E ocs \in Answers :
       /\ TickWith(ocs)
       /\ \E f \in {check_due_live_once(events, now, next_poll_at, backoff, ocs).fetched} :
            fetched' = f /\ tried' = tried \cup f
  /\ UNCHANGED << stopped, lock_vars, store_vars, env_vars,
                  events_tmp, state_tmp, save_pc, before, after, fail_vars >>

\* the clock moves on, to the hour after the evening release at most; the
\* loop's tick is far shorter than the hour, so a tick has read each hour
AdvanceLive ==
  /\ last_op = "tick"
  /\ now <= EveningRelease
  /\ now' = now + 1
  /\ last_op' = "other"
  /\ fetched' = {}
  /\ UNCHANGED << events, next_poll_at, backoff, active_start_et,
                  posted_release_groups, posted_missing_groups, posted_expired_groups,
                  live_sent, stopped, tried, lock_vars, store_vars, env_vars,
                  events_tmp, state_tmp, save_pc, before, after, fail_vars >>

NextLive ==
  \/ LiveBuild
  \/ TickLive
  \/ AdvanceLive

InitLive == now = StartTime /\ InitData

\* ticks continue and the clock runs
SpecLive ==
  /\ InitLive
  /\ [][NextLive]_vars
  /\ WF_vars(TickLive)
  /\ WF_vars(AdvanceLive)

\* ---------------------------------------------------------------- the release minute
\* One release followed second by second, the watcher running with the
\* settings load_settings gives when the environment sets none.  Times are
\* seconds since 00:00 of the release day.
WatcherDefaults ==
  [burst_poll_seconds |-> 5, burst_window_seconds |-> 60,
   backoff_start_seconds |-> 60, backoff_max_seconds |-> 900]

\* the Census release of 08:30:00
MinuteEvent ==
  [CensusCalendar[1] EXCEPT !.scheduled_time_et = 8 * 3600 + 30 * 60]

\* ReleaseWatcher._cutoff_dt, on a clock of seconds
cutoff_dt_seconds(e) ==
  (e.scheduled_time_et - (e.scheduled_time_et % (HoursPerDay * 3600))) + CutoffHour * 3600

\* ReleaseWatcher.plan with the settings cfg, on a clock of seconds
plan_seconds(cfg, e, t, npa, bo) ==
  IF e.status \in Terminal
    THEN [plan |-> PollPlan(FALSE, None, FALSE, None, None, FALSE), npa |-> npa, bo |-> bo]
  ELSE IF t < e.scheduled_time_et
    THEN [plan |-> PollPlan(FALSE, None, FALSE, None, None, FALSE),
          npa |-> Pop(npa, e.event_id), bo |-> Pop(bo, e.event_id)]
  ELSE IF t >= cutoff_dt_seconds(e)
    THEN [plan |-> PollPlan(FALSE, None, FALSE, None, None, TRUE),
          npa |-> Pop(npa, e.event_id), bo |-> Pop(bo, e.event_id)]
  ELSE
    LET burst_deadline == e.scheduled_time_et + cfg.burst_window_seconds
        in_burst == t <= burst_deadline
        npa1 == IF e.event_id \in DOMAIN npa THEN npa
                ELSE Put(npa, e.event_id, e.scheduled_time_et)
        due == t >= npa1[e.event_id]
        b == Get(bo, e.event_id, cfg.backoff_start_seconds)
    IN IF in_burst
         THEN [plan |-> PollPlan(due, IF due THEN t + cfg.burst_poll_seconds
                                      ELSE npa1[e.event_id],
                                 TRUE, burst_deadline, None, FALSE),
               npa |-> npa1, bo |-> bo]
         ELSE [plan |-> PollPlan(due, IF due THEN t + b ELSE npa1[e.event_id],
                                 FALSE, burst_deadline, b, FALSE),
               npa |-> npa1, bo |-> bo]

\* (variant: the next attempt always comes backoff_start_seconds later)
reschedule_seconds_from_start(cfg, e, t, npa, bo) ==
  IF t + cfg.burst_poll_seconds >= cutoff_dt_seconds(e)
    THEN [npa |-> Pop(npa, e.event_id), bo |-> Pop(bo, e.event_id)]
  ELSE IF t <= e.scheduled_time_et + cfg.burst_window_seconds
    THEN [npa |-> Put(npa, e.event_id, t + cfg.burst_poll_seconds), bo |-> bo]
  ELSE [npa |-> Put(npa, e.event_id, t + cfg.backoff_start_seconds),
        bo |-> Put(bo, e.event_id, cfg.backoff_start_seconds)]

\* ReleaseWatcher.maybe_poll, the part after a fetch that did not release,
\* with the settings cfg
reschedule_seconds(cfg, e, t, npa, bo) ==
  IF t + cfg.burst_poll_seconds >= cutoff_dt_seconds(e)
    THEN [npa |-> Pop(npa, e.event_id), bo |-> Pop(bo, e.event_id)]
  ELSE IF t <= e.scheduled_time_et + cfg.burst_window_seconds
    THEN [npa |-> Put(npa, e.event_id, t + cfg.burst_poll_seconds), bo |-> bo]
  ELSE LET b == Get(bo, e.event_id, cfg.backoff_start_seconds)
       IN [npa |-> Put(npa, e.event_id, t + b),
           bo |-> Put(bo, e.event_id, Min(b * 2, cfg.backoff_max_seconds))]

\* ReleaseWatcher.maybe_poll with the settings cfg
maybe_poll_seconds(cfg, e, t, npa, bo, oc) ==
  LET p == plan_seconds(cfg, e, t, npa, bo)
  IN IF p.plan.expired_for_day \/ ~p.plan.due
       THEN [e |-> e, npa |-> p.npa, bo |-> p.bo, fetched |-> FALSE]
       ELSE LET updated == poll_event(e, oc)
            IN IF updated.status # "released"
                 THEN LET r == reschedule_seconds(cfg, e, t, p.npa, p.bo)
                      IN [e |-> updated, npa |-> r.npa, bo |-> r.bo, fetched |-> TRUE]
                 ELSE [e |-> updated, npa |-> Pop(p.npa, e.event_id),
                       bo |-> Pop(p.bo, e.event_id), fetched |-> TRUE]

\* main(), line 392: the first scheduled_job lists the release
MinuteBuild ==
  /\ events = << >>
  /\ events' = << MinuteEvent >>
  /\ last_op' = "rebuild"
  /\ UNCHANGED << now, next_poll_at, backoff, active_start_et, posted_release_groups,
                  posted_missing_groups, posted_expired_groups, live_sent,
                  lock_vars, store_vars, env_vars, save_vars >>

\* check_due_live_once over the one event, in a tick of the live loop
MinuteTick ==
  /\ events # << >>
  /\ last_op # "tick"
  /\ \E oc \in Outcomes :
       \E r \in {IF events[1].status \in Terminal \/ now < events[1].scheduled_time_et
                   THEN [e |-> events[1], npa |-> next_poll_at, bo |-> backoff,
                         fetched |-> FALSE]
                   ELSE maybe_poll_seconds(WatcherDefaults, events[1], now,
                                           next_poll_at, backoff, oc)} :
         /\ events' = << r.e >>
         /\ next_poll_at' = r.npa
         /\ backoff' = r.bo
         /\ fetched' = IF r.fetched THEN {events[1].event_id} ELSE {}
         /\ tried' = tried \cup fetched'
  /\ last_op' = "tick"
  /\ UNCHANGED << now, active_start_et, posted_release_groups, posted_missing_groups,
                  posted_expired_groups, live_sent, stopped, lock_vars, store_vars,
                  env_vars, events_tmp, state_tmp, save_pc, before, after, fail_vars >>

\* the next second (WATCHER_TICK_SECONDS is 1), a tick having read this
\* one; the run ends five minutes after the release
MinuteAdvance ==
  /\ last_op = "tick"
  /\ now < MinuteEvent.scheduled_time_et + 5 * 60
  /\ now' = now + 1
  /\ last_op' = "other"
  /\ fetched' = {}
  /\ UNCHANGED << events, next_poll_at, backoff, active_start_et,
                  posted_release_groups, posted_missing_groups, posted_expired_groups,
                  live_sent, stopped, tried, lock_vars, store_vars, env_vars,
                  events_tmp, state_tmp, save_pc, before, after, fail_vars >>

NextMinute ==
  \/ MinuteBuild
  \/ MinuteTick
  \/ MinuteAdvance

InitMinute == now = MinuteEvent.scheduled_time_et - 1 /\ InitData

SpecMinute == InitMinute /\ [][NextMinute]_vars

\* ---------------------------------------------------------------- properties
Posted(kind) ==
  CASE kind = "released" -> posted_release_groups
    [] kind = "missing" -> posted_missing_groups
    [] OTHER -> posted_expired_groups

Unfinished(e) == e.status \notin {"released", "disabled"}

\* 17:00 on the day of the event's scheduled time
DayCutoff(e) ==
  (e.scheduled_time_et - (e.scheduled_time_et % HoursPerDay)) + CutoffHour

\* the live loop fetches events[i] in a tick taken in this state
LiveAttempt(i) ==
  /\ Unfinished(events[i])
  /\ events[i].scheduled_time_et <= now
  /\ now < DayCutoff(events[i])
  /\ now >= Get(next_poll_at, events[i].event_id, events[i].scheduled_time_et)

Doubled(b) == Min(2 * b, backoff_max_seconds)

\* C1: between rollovers the live loop sends at most one notification of
\* each kind per group key, and a key it has notified is in the posted set
\* of that kind.
C1_AtMostOncePerKind ==
  \A k \in Kinds, gk \in GroupKeys :
    /\ live_sent[<< k, gk >>] <= 1
    /\ live_sent[<< k, gk >>] = 1 => gk \in Posted(k)

\* a group notified as missing in one tick and as released in a later one
C1_Witness ==
  \E gk \in GroupKeys :
    /\ live_sent[<< "missing", gk >>] = 1
    /\ live_sent[<< "released", gk >>] = 1
    /\ last_op = "tick"

C3_MergePreservation ==
  [][ last_op' = "rebuild" =>
        \A j \in DOMAIN events' : \A i \in DOMAIN events :
          events'[j].event_id = events[i].event_id =>
            /\ events'[j].status = events[i].status
            /\ events'[j].release = events[i].release ]_vars

\* a rebuild has re-discovered a released event, which kept its value
C3_Witness ==
  /\ last_op = "rebuild"
  /\ \E i \in DOMAIN events :
       events[i].status = "released" /\ events[i].release.actual = "v"

\* C4: after a rebuild every event of the previous list scheduled at or
\* after the active-week boundary is still in the list, unchanged (the
\* matched ones by the merge, the unmatched ones kept as they were).
C4_UnmatchedKept ==
  [][ last_op' = "rebuild" =>
        \A i \in DOMAIN events :
          events[i].scheduled_time_et >= Max(active_start_et, week_bounds_et(now)) =>
            \E j \in DOMAIN events' : events'[j] = events[i] ]_vars

\* C5: at most one task is inside the lock at any time.
C5_MutualExclusion ==
  \A t1 \in Tasks, t2 \in Tasks :
    (pc[t1] \in {"locked", "awaiting"} /\ pc[t2] \in {"locked", "awaiting"}) => t1 = t2

\* the rerun command is inside the lock, its work done, while the live loop
\* and the rebuild job wait for the lock
C5_Witness ==
  /\ pc["rerun_cmd"] = "awaiting"
  /\ pc["live_monitor_loop"] = "waiting"
  /\ pc["scheduled_job"] = "waiting"
  /\ last_op = "rerun"

\* C6 as stated: a failed live attempt in the burst window sets the next
\* attempt to now + burst_poll; the first failed one after the window sets it
\* to now + backoff_start; every failed one after the window doubles the
\* backoff (capped).
C6_BurstThenBackoff ==
  [][ last_op' = "tick" =>
        \A i \in DOMAIN events :
          (LiveAttempt(i) /\ events'[i].status # "released") =>
            LET id == events[i].event_id
                T == events[i].scheduled_time_et
            IN /\ id \in DOMAIN next_poll_at'
               /\ now <= T + burst_window_seconds =>
                    next_poll_at'[id] = now + burst_poll_seconds
               /\ (now > T + burst_window_seconds /\ id \notin DOMAIN backoff) =>
                    /\ next_poll_at'[id] = now + backoff_start_seconds
                    /\ id \in DOMAIN backoff'
                    /\ backoff'[id] = Doubled(backoff_start_seconds)
               /\ (now > T + burst_window_seconds /\ id \in DOMAIN backoff) =>
                    /\ id \in DOMAIN backoff'
                    /\ backoff'[id] = Doubled(backoff[id]) ]_vars

\* C6 amended: the same, for an attempt with now + burst_poll < cutoff; a
\* failed attempt with now + burst_poll >= cutoff clears the event's timers.
C6_BurstThenBackoffBeforeCutoff ==
  [][ last_op' = "tick" =>
        \A i \in DOMAIN events :
          (LiveAttempt(i) /\ events'[i].status # "released") =>
            LET id == events[i].event_id
                T == events[i].scheduled_time_et
            IN IF now + burst_poll_seconds >= DayCutoff(events[i])
                 THEN id \notin DOMAIN next_poll_at' /\ id \notin DOMAIN backoff'
                 ELSE
                   /\ id \in DOMAIN next_poll_at'
                   /\ now <= T + burst_window_seconds =>
                        next_poll_at'[id] = now + burst_poll_seconds
                   /\ (now > T + burst_window_seconds /\ id \notin DOMAIN backoff) =>
                        /\ next_poll_at'[id] = now + backoff_start_seconds
                        /\ id \in DOMAIN backoff'
                        /\ backoff'[id] = Doubled(backoff_start_seconds)
                   /\ (now > T + burst_window_seconds /\ id \in DOMAIN backoff) =>
                        /\ next_poll_at'[id] = now + backoff[id]
                        /\ id \in DOMAIN backoff'
                        /\ backoff'[id] = Doubled(backoff[id]) ]_vars

\* the second failed attempt after the burst window has just been made: the
\* next one is one doubled backoff away, and the backoff has doubled twice
C6_Witness ==
  /\ last_op = "tick"
  /\ \E i \in DOMAIN events :
       LET id == events[i].event_id
       IN /\ events[i].status = "scheduled"
          /\ id \in DOMAIN backoff /\ id \in DOMAIN next_poll_at
          /\ backoff[id] = Doubled(Doubled(backoff_start_seconds))
          /\ next_poll_at[id] = now + Doubled(backoff_start_seconds)

\* C7: for an unfinished event whose scheduled time has passed, plan at or
\* after the day's cutoff answers due = false, expired_for_day = true, and
\* leaves no timer entry for the event, whatever the timers were.
C7_CutoffStopsPolling ==
  \A i \in DOMAIN events :
    (/\ Unfinished(events[i])
     /\ now >= events[i].scheduled_time_et
     /\ now >= DayCutoff(events[i])) =>
      LET p == plan(events[i], now, next_poll_at, backoff)
      IN /\ p.plan.due = FALSE
         /\ p.plan.expired_for_day = TRUE
         /\ events[i].event_id \notin DOMAIN p.npa
         /\ events[i].event_id \notin DOMAIN p.bo

\* the cutoff has come for an unfinished event that still has both timers
C7_Witness ==
  \E i \in DOMAIN events :
    /\ Unfinished(events[i])
    /\ now >= DayCutoff(events[i])
    /\ events[i].event_id \in DOMAIN next_poll_at
    /\ events[i].event_id \in DOMAIN backoff

\* C8: a rerun leaves next_poll_at and backoff as they were.
C8_RerunLeavesTimers ==
  [][ last_op' = "rerun" => UNCHANGED << next_poll_at, backoff >> ]_vars

\* a rerun has fetched and released an event that has timers
C8_Witness ==
  /\ last_op = "rerun"
  /\ \E i \in DOMAIN events :
       /\ events[i].status = "released"
       /\ events[i].event_id \in DOMAIN next_poll_at
       /\ events[i].event_id \in DOMAIN backoff

\* C9: no released or disabled event of the live set has a timer entry.
C9_NoTimersForTerminal ==
  \A i \in DOMAIN events :
    events[i].status \in {"released", "disabled"} =>
      /\ events[i].event_id \notin DOMAIN next_poll_at
      /\ events[i].event_id \notin DOMAIN backoff

\* C10: a tick sends an expired notification for a group only if the group
\* was flagged neither released nor expired and every unfinished member is
\* past its scheduled time and its day's cutoff; then every unfinished member
\* is missing afterwards, the key is in posted_expired_groups and exactly one
\* notification was sent.
C10_ExpiredOnlyWhenAllExpired ==
  [][ last_op' = "tick" =>
        \A gk \in GroupKeys :
          live_sent'[<< "expired", gk >>] # live_sent[<< "expired", gk >>] =>
            /\ gk \notin posted_release_groups
            /\ gk \notin posted_expired_groups
            /\ \A i \in members(events, gk) :
                 Unfinished(events[i]) =>
                   /\ now >= events[i].scheduled_time_et
                   /\ now >= DayCutoff(events[i])
                   /\ events'[i].status = "missing"
            /\ gk \in posted_expired_groups'
            /\ live_sent'[<< "expired", gk >>] = live_sent[<< "expired", gk >>] + 1 ]_vars

\* a tick has expired a group with one released member and one unfinished
\* member, which is now missing
C10_Witness ==
  /\ last_op = "tick"
  /\ \E gk \in GroupKeys :
       /\ live_sent[<< "expired", gk >>] = 1
       /\ gk \in posted_expired_groups
       /\ \E i \in members(events, gk) : events[i].status = "released"
       /\ \E i \in members(events, gk) : events[i].status = "missing"

\* the release condition of the released pass, on the members of gk in evs
ReleaseCondition(evs, gk) ==
  LET nd == { i \in DOMAIN evs :
                /\ (IF evs[i].group_key = "" THEN evs[i].event_id ELSE evs[i].group_key) = gk
                /\ evs[i].status # "disabled" }
  IN /\ nd # {}
     /\ \/ \A i \in nd : evs[i].status = "released"
        \/ /\ \E i \in nd : evs[i].release.actual # "none"
           /\ \A i \in nd : evs[i].status # "scheduled"

\* C11: a tick sends no missing and no expired notification for a group the
\* live loop has notified as released, in this tick or in an earlier one.
C11_ReleasedSilencesOthers ==
  [][ last_op' = "tick" =>
        \A gk \in GroupKeys :
          live_sent'[<< "released", gk >>] >= 1 =>
            /\ live_sent'[<< "missing", gk >>] = live_sent[<< "missing", gk >>]
            /\ live_sent'[<< "expired", gk >>] = live_sent[<< "expired", gk >>] ]_vars

\* a group was notified as released and never as missing or expired, one of
\* its members is unfinished again, and a tick has run at the cutoff
C11_Witness ==
  /\ last_op = "tick"
  /\ \E gk \in GroupKeys :
       /\ live_sent[<< "released", gk >>] = 1
       /\ live_sent[<< "missing", gk >>] = 0
       /\ live_sent[<< "expired", gk >>] = 0
       /\ \E i \in members(events, gk) :
            Unfinished(events[i]) /\ now >= DayCutoff(events[i])

\* C12: posted_release_groups and posted_expired_groups are disjoint.
C12_ExpiredExcludesReleased ==
  posted_release_groups \cap posted_expired_groups = {}

C14_MissingAfterBurst ==
  [][ last_op' = "tick" =>
        /\ \A gk \in GroupKeys :
             IF /\ gk \notin posted_missing_groups
                /\ gk \notin posted_release_groups
                /\ gk \notin posted_expired_groups'
                /\ \E i \in members(events', gk) : Unfinished(events'[i])
                /\ \E i \in members(events', gk) :
                     now >= events'[i].scheduled_time_et + burst_window_seconds
               THEN /\ live_sent'[<< "missing", gk >>] = live_sent[<< "missing", gk >>] + 1
                    /\ gk \in posted_missing_groups'
               ELSE /\ live_sent'[<< "missing", gk >>] = live_sent[<< "missing", gk >>]
                    /\ (gk \in posted_missing_groups' <=> gk \in posted_missing_groups)
        /\ events # << >> =>
             \E ocs \in Answers :
               LET r == check_due_live_once(events, now, next_poll_at, backoff, ocs)
               IN /\ next_poll_at' = r.npa
                  /\ backoff' = r.bo
                  /\ \A gk \in GroupKeys :
                       live_sent'[<< "missing", gk >>] # live_sent[<< "missing", gk >>] =>
                         \A i \in members(events, gk) : events'[i] = r.events[i] ]_vars

\* a group has been notified as missing and a later tick has polled one of
\* its members again: still scheduled, with a backoff
C14_Witness ==
  /\ last_op = "tick"
  /\ \E gk \in GroupKeys :
       /\ live_sent[<< "missing", gk >>] = 1
       /\ gk \notin posted_expired_groups
       /\ \E i \in members(events, gk) :
            /\ events[i].status = "scheduled"
            /\ events[i].event_id \in DOMAIN backoff
            /\ events[i].event_id \in DOMAIN next_poll_at
            /\ next_poll_at[events[i].event_id] > now

\* C16: after clean_calendar active_start is the Monday 00:00 after the
\* current week, the three posted sets are empty, and the live set is the
\* previous one without the events scheduled before the new active_start.
C16_CleanRollsOver ==
  [][ last_op' = "clean" =>
        LET boundary == (now - (now % (DaysPerWeek * HoursPerDay))) + DaysPerWeek * HoursPerDay
        IN /\ active_start_et' = boundary
           /\ posted_release_groups' = {}
           /\ posted_missing_groups' = {}
           /\ posted_expired_groups' = {}
           /\ \A j \in DOMAIN events' :
                /\ events'[j].scheduled_time_et >= boundary
                /\ \E i \in DOMAIN events : events[i] = events'[j]
           /\ \A i \in DOMAIN events :
                events[i].scheduled_time_et >= boundary =>
                  \E j \in DOMAIN events' : events'[j] = events[i]
           /\ Len(events') =
                Cardinality({ i \in DOMAIN events : events[i].scheduled_time_et >= boundary }) ]_vars

\* a clean has run after groups were notified: next week's event is all that
\* is left
C16_Witness ==
  /\ last_op = "clean"
  /\ active_start_et = DaysPerWeek * HoursPerDay
  /\ Len(events) = 1
  /\ events[1].event_id = "bls:cpi"
  /\ next_poll_at # EmptyDict

CurrentState ==
  BotState(active_start_et, posted_release_groups, posted_missing_groups,
           posted_expired_groups)

Handlers == {"rebuild", "clean", "tick", "rerun", "restart"}

\* C15: a restart right after a tick that left the state document in step
\* with the bot state loads the three posted sets as they were; if no write
\* has failed, every group the live loop notified is in the loaded set of
\* that kind; and a tick notifies no group whose key is in the set of that
\* kind.
C15_RestartKeepsDedup ==
  [][ /\ (/\ last_op' = "restart" /\ running'
          /\ last_op = "tick"
          /\ state_signature(CurrentState) = last_state_sig) =>
            /\ posted_release_groups' = posted_release_groups
            /\ posted_missing_groups' = posted_missing_groups
            /\ posted_expired_groups' = posted_expired_groups
            /\ disk = "ok" =>
                 \A k \in Kinds, gk \in GroupKeys :
                   live_sent[<< k, gk >>] >= 1 =>
                     gk \in (CASE k = "released" -> posted_release_groups'
                               [] k = "missing" -> posted_missing_groups'
                               [] OTHER -> posted_expired_groups')
      /\ last_op' = "tick" =>
           \A k \in Kinds, gk \in GroupKeys :
             live_sent'[<< k, gk >>] # live_sent[<< k, gk >>] => gk \notin Posted(k) ]_vars

\* the process was restarted after a group was notified as missing: the key
\* is loaded, a member is still unfinished and past its burst window
C15_Witness ==
  /\ last_op = "restart"
  /\ running
  /\ disk = "ok"
  /\ \E gk \in GroupKeys :
       /\ live_sent[<< "missing", gk >>] = 1
       /\ gk \in posted_missing_groups
       /\ gk \notin posted_release_groups
       /\ \E i \in members(events, gk) :
            /\ Unfinished(events[i])
            /\ now >= events[i].scheduled_time_et + burst_window_seconds

\* C18: whatever the two files hold, load_events and load_state return
\* without raising, and the process gets past its loads at every start.
C18_LoadsNeverRaise ==
  /\ ~load_events(events_file).raised
  /\ ~load_state(state_file, now).raised
  /\ running

\* C19: a handler writes a document only when its signature differs from
\* the one recorded (by the last write, or at load); it then records the new
\* signature and the file holds the new payload; a handler that does not
\* write a document leaves its file and its recorded signature alone.
C19_WritesOnlyOnChange ==
  [][ last_op' \in Handlers =>
        LET base_e == IF last_op' = "restart"
                        THEN events_signature(load_events(events_file).events)
                        ELSE last_events_sig
            base_s == IF last_op' = "restart"
                        THEN state_signature(load_state(state_file, now).state)
                        ELSE last_state_sig
        IN /\ IF "events" \in wrote'
                THEN /\ events_signature(events') # base_e
                     /\ last_events_sig' = events_signature(events')
                     /\ events_file' = Doc(events_payload(events'))
                ELSE /\ events_file' = events_file
                     /\ running' => last_events_sig' = base_e
           /\ IF "state" \in wrote'
                THEN /\ state_signature(state_after) # base_s
                     /\ last_state_sig' = state_signature(state_after)
                     /\ state_file' = Doc(state_payload(state_after))
                ELSE /\ state_file' = state_file
                     /\ running' => last_state_sig' = base_s ]_vars

\* both documents exist and a rebuild that changed nothing wrote nothing
C19_Witness ==
  /\ last_op = "rebuild"
  /\ wrote = {}
  /\ disk = "ok"
  /\ events # << >>
  /\ events_file = Doc(events_payload(events))
  /\ state_file = Doc(state_payload(CurrentState))

\* C17: at every instant, a crash between any two file operations of
\* save_events / save_state included, what is at calendar.json and at
\* state.json is nothing or a complete payload, and a step changes it only
\* to the complete payload of the list / state being saved.
C17_NoPartialDocument ==
  [][ /\ events_file'.kind \in {"absent", "doc"}
      /\ state_file'.kind \in {"absent", "doc"}
      /\ events_file' # events_file => events_file' = Doc(events_payload(events))
      /\ state_file' # state_file => state_file' = Doc(state_payload(CurrentState)) ]_vars

\* the process was killed while calendar.tmp was half written, with an
\* earlier complete document at calendar.json
C17_Witness ==
  /\ ~running
  /\ events_tmp = Partial
  /\ events_file.kind = "doc"
  /\ events_file # Doc(events_payload(events))

\* C20 as stated: for every event list and every bot state, what the loads
\* return after the saves has the same field values, offsets included.
C20_RoundTrip ==
  after.tag = "loaded" =>
    /\ after.events = before.events
    /\ after.state = before.state

\* C20, amended: the event list comes back with every field as it was,
\* offsets included; the bot state comes back with the three sets as they
\* were and active_start at the same instant, carrying the offset of the
\* configured zone: identical when it was in that zone when saved.
C20_RoundTripInZone ==
  after.tag = "loaded" =>
    /\ after.events = before.events
    /\ after.state.posted_release_groups = before.state.posted_release_groups
    /\ after.state.posted_missing_groups = before.state.posted_missing_groups
    /\ after.state.posted_expired_groups = before.state.posted_expired_groups
    /\ after.state.active_start_et = astimezone(before.state.active_start_et, EtOffset)
    /\ before.state.active_start_et.offset = EtOffset => after.state = before.state

\* a list of two events, one released with its actual and one at the other
\* offset, and a state in the configured zone with keys in its sets, were
\* saved and loaded
C20_Witness ==
  /\ after.tag = "loaded"
  /\ Len(before.events) = 2
  /\ before.events[1].status = "released"
  /\ before.events[1].release.actual # "none"
  /\ before.events[1].scheduled_time_et.offset = UtcOffset
  /\ before.state.active_start_et.offset = EtOffset
  /\ before.state.posted_release_groups = CodecKeys
  /\ before.state.posted_expired_groups # {}

\* the events check_due_live_once passes over: finished, or not yet due
PassedOver(e, t) == e.status \in Terminal \/ t < e.scheduled_time_et

\* C21: a live pass fetches no event that is released, disabled or scheduled
\* after now, and returns each of them as it was; the list it returns has
\* the events of its input, in the same order.
C21_PassThrough ==
  [][ last_op' = "tick" =>
        /\ Len(events') = Len(events)
        /\ \A i \in DOMAIN events :
             /\ events'[i].event_id = events[i].event_id
             /\ PassedOver(events[i], now) =>
                  /\ events[i].event_id \notin fetched'
                  /\ events'[i] = events[i] ]_vars

\* a pass fetched an event and left a released, a disabled and a future
\* event alone
C21_Witness ==
  /\ last_op = "tick"
  /\ fetched # {}
  /\ \E i, j, k \in DOMAIN events :
       /\ events[i].status = "released" /\ events[i].event_id \notin fetched
       /\ events[j].status = "disabled" /\ events[j].event_id \notin fetched
       /\ now < events[k].scheduled_time_et /\ events[k].status = "scheduled"

\* C22: every fetch of a live pass is made at a time now with
\* scheduled_time <= now < 17:00 of the event's scheduled date.
C22_FetchInsideWindow ==
  [][ \A i \in DOMAIN events :
        events[i].event_id \in fetched' =>
          /\ events[i].scheduled_time_et <= now
          /\ now < DayCutoff(events[i]) ]_vars

\* a pass fetched an event in the last hour before its cutoff, and the
\* clock has since reached the cutoff with the event still unfinished
C22_Witness ==
  \E i \in DOMAIN events :
    /\ Unfinished(events[i])
    /\ events[i].event_id \in stopped
    /\ now >= DayCutoff(events[i])
    /\ last_op = "tick"
    /\ fetched = {}

\* C23: an event whose status a fetch has set to missing is not fetched by
\* a later live pass.
C23_MissingNotRetried ==
  [][ \A i \in DOMAIN events :
        events[i].status = "missing" => events[i].event_id \notin fetched' ]_vars

\* C24: an event a live pass gave up for the day (its fetch did not release
\* it and now + burst_poll_seconds reached the cutoff) has no timers after
\* that pass, and no later live pass fetches it.
C24_StoppedForTheDay ==
  [][ \A i \in DOMAIN events :
        /\ events[i].event_id \in stopped' \ stopped =>
             /\ events[i].event_id \notin DOMAIN next_poll_at'
             /\ events[i].event_id \notin DOMAIN backoff'
        /\ events[i].event_id \in stopped => events[i].event_id \notin fetched' ]_vars

\* C25: a notification whose send raised leaves its group key in the
\* posted set of its kind, and the live loop makes no second attempt to
\* send that kind for the group.
C25_FailedSendNotRetried ==
  \A kg \in send_failed :
    /\ kg[2] \in Posted(kg[1])
    /\ live_sent[kg] = 1

\* a send raised in one tick, and a later tick ran to its end
C25_Witness ==
  /\ send_failed # {}
  /\ pc[Loop] = "leaving"
  /\ raised = "none"
  /\ last_op = "tick"
  /\ events # << >>

\* C26: a tick of the live loop in which a fetch, a send or a save raised
\* is followed by the release of the lock, and then by a further tick.  (A
\* fetch that raises is caught in poll_event and counts as a failed attempt.)
C26_LoopGoesOn ==
  /\ (pc[Loop] = "leaving" /\ raised # "none") ~> (pc[Loop] = "idle" /\ events_lock = "free")
  /\ (pc[Loop] = "idle") ~> (pc[Loop] = "locked" /\ events_lock = Loop)

\* the loop is inside a further tick after a tick whose send raised
C26_Witness ==
  /\ send_failed # {}
  /\ pc[Loop] = "locked"
  /\ events_lock = Loop

\* C27: a tick in which the send for one group raises still evaluates the
\* other groups (none is left due for a notification after the tick) and
\* still persists the state changes of the tick.
C27_FailureIsLocal ==
  [][ (pc[Loop] = "locked" /\ pc'[Loop] = "leaving" /\ raised' = "send") =>
        /\ expired_groups(events', now, posted_release_groups',
                          posted_expired_groups') = {}
        /\ missing_groups(events', now, posted_release_groups',
                          posted_missing_groups', posted_expired_groups') = {}
        /\ released_groups(events', posted_release_groups', posted_expired_groups') = {}
        /\ disk # "failing" => state_signature(CurrentState') = last_state_sig' ]_vars

\* C28: a run of !calendar or !rerun in which an exception is raised sends
\* the caller a message; no run of either command ends without one.
C28_CommandAlwaysAnswers ==
  [][ (pc' = pc /\ last_op' \in {"rebuild", "rerun"}) =>
        reply' # "none" ]_vars

\* C29: a step of any handler other than clean_calendar leaves every key
\* of the three posted sets in its set.
C29_PostedSetsGrow ==
  [][ last_op' # "clean" =>
        /\ posted_release_groups \subseteq posted_release_groups'
        /\ posted_missing_groups \subseteq posted_missing_groups'
        /\ posted_expired_groups \subseteq posted_expired_groups' ]_vars

\* the live loop has added a key to the missing and the expired set, and
\* !rerun has then added it to the release set
C29_Witness ==
  /\ last_op = "rerun"
  /\ \E gk \in GroupKeys :
       /\ gk \in posted_missing_groups
       /\ gk \in posted_expired_groups
       /\ gk \in posted_release_groups

\* C30: a run of !rerun posts a release only for groups that are not yet
\* in posted_release_groups.
C30_RerunPostsNewGroupsOnly ==
  [][ last_op' = "rerun" =>
        rerun_groups(events', posted_release_groups, posted_expired_groups)
          \cap posted_release_groups = {} ]_vars

\* C31: once the weekly clean job has run, a rebuild leaves in the live
\* list every event the providers list for the week that has just begun.
C31_NewWeekStaysLive ==
  [][ (last_op' = "rebuild" /\ now >= HoursPerWeek) =>
        \A p \in {"CENSUS", "BLS"} : \A j \in DOMAIN ProviderCalendar(p) :
          LET e == ProviderCalendar(p)[j]
          IN (/\ week_bounds_et(now) <= e.scheduled_time_et
              /\ e.scheduled_time_et < week_bounds_et(now) + HoursPerWeek) =>
               \E i \in DOMAIN events' : events'[i].event_id = e.event_id ]_vars

\* C32: an event that is released with an actual value, and stays in the
\* live list, is eventually covered by a release notification of its group.
C32_ReleasedIsNotified ==
  \A id \in Ids :
    (\E i \in DOMAIN events :
        /\ events[i].event_id = id
        /\ events[i].status = "released"
        /\ events[i].release.actual # "none")
      ~> (\E i \in DOMAIN events :
            /\ events[i].event_id = id
            /\ live_sent[<< "released", group_of(events[i]) >>] >= 1)

\* C37: a group with an unfinished member whose scheduled time has passed
\* is eventually in posted_release_groups or posted_expired_groups, or has
\* only disabled members.
C37_GroupIsSettled ==
  \A gk \in GroupKeys :
    (\E i \in members(events, gk) :
        Unfinished(events[i]) /\ events[i].scheduled_time_et <= now)
      ~> \/ gk \in posted_release_groups \cup posted_expired_groups
         \/ /\ members(events, gk) # {}
            /\ \A i \in members(events, gk) : events[i].status = "disabled"

\* the three ways a group is settled, after the evening release
C37_Witness ==
  /\ "census:marts" \in posted_release_groups
  /\ "cpi" \in posted_expired_groups
  /\ \A i \in members(events, "jolts") : events[i].status = "disabled"
  /\ now > EveningRelease

\* C38: an event the expired pass has marked missing, in a run whose ticks
\* started before the event's scheduled time, was fetched by the live loop
\* at least once before.
C38_TriedBeforeExpired ==
  \A i \in DOMAIN events :
    (/\ group_of(events[i]) \in posted_expired_groups
     /\ events[i].status = "missing") => events[i].event_id \in tried

\* C33: with the release at 08:30:00, a burst window of 60 s, a backoff
\* start of 60 s and a maximum of 900 s, a fetch that fails at 08:31:05 is
\* planned with a backoff of 60 s and puts the next attempt at 08:32:05;
\* the failure at 08:32:05 is planned with a backoff of 120 s, the next
\* attempt coming 120 s later.
C33_BackoffExample ==
  [][ (/\ last_op' = "tick"
       /\ fetched' # {}
       /\ events'[1].status # "released") =>
        LET s == MinuteEvent.scheduled_time_et
            id == MinuteEvent.event_id
            p == plan_seconds(WatcherDefaults, events[1], now, next_poll_at, backoff).plan
        IN /\ now = s + 65 =>
                /\ ~p.in_burst_window
                /\ p.backoff_seconds = 60
                /\ next_poll_at'[id] = s + 125
           /\ now = s + 125 =>
                /\ p.backoff_seconds = 120
                /\ next_poll_at'[id] = now + 120 ]_vars

\* the fetch of 08:32:05 has failed, after the one of 08:31:05
C33_Witness ==
  /\ events # << >>
  /\ now = MinuteEvent.scheduled_time_et + 125
  /\ last_op = "tick"
  /\ fetched = {MinuteEvent.event_id}
  /\ events[1].status # "released"
  /\ next_poll_at[MinuteEvent.event_id] = now + 120

\* C34: force_poll_once fetches the events whose scheduled time has come
\* and whose status is neither released nor disabled (and, when expired
\* events are not included, that are not expired for the day), and no
\* other event.
C34_ForcedFetchesEligibleOnly ==
  [][ last_op' = "rerun" =>
        \A inc \in BOOLEAN : \A ocs \in Answers :
          force_poll_once(events, now, next_poll_at, backoff, inc, ocs).fetched
            = { events[i].event_id : i \in { j \in DOMAIN events :
                  /\ now >= events[j].scheduled_time_et
                  /\ events[j].status \notin {"released", "disabled"}
                  /\ inc \/ ~is_expired_for_day(events[j], now) } } ]_vars

\* C35: when a live tick over a non-empty list ends without an exception,
\* the document at cache_path holds the payload of the live list as the
\* tick leaves it.
C35_TickLeavesDocumentCurrent ==
  [][ (/\ pc[Loop] = "locked"
       /\ pc'[Loop] = "leaving"
       /\ events # << >>
       /\ raised' = "none") =>
        events_file' = Doc(events_payload(events')) ]_vars

\* C36: a live fetch that raises or brings no data (the event comes back
\* neither released nor disabled) leaves the event's status and release as
\* they were, and leaves the timers as the rescheduling after an
\* unsuccessful attempt sets them.
C36_FailedFetchLeavesEvent ==
  [][ \A i \in DOMAIN events :
        (/\ last_op' = "tick"
         /\ events[i].event_id \in fetched'
         /\ events'[i].status \notin {"released", "disabled"}) =>
          LET e == events[i]
              p == plan(e, now, next_poll_at, backoff)
              r == reschedule(e, now, p.npa, p.bo)
          IN /\ events'[i].status = e.status
             /\ events'[i].release = e.release
             /\ Get(next_poll_at', e.event_id, None) = Get(r.npa, e.event_id, None)
             /\ Get(backoff', e.event_id, None) = Get(r.bo, e.event_id, None) ]_vars

\* C39: plan called again at the same instant, no fetch having completed in
\* between, returns the PollPlan of the first call and leaves the timers as
\* the first call left them; the time kept for an event is changed to
\* another time only by a pass that fetched the event without a release.
C39_PlanRepeats ==
  [][ /\ \A i \in DOMAIN events : \A t \in {now, now + 1} :
           LET first == plan(events[i], t, next_poll_at, backoff)
           IN plan(events[i], t, first.npa, first.bo) = first
      /\ \A i \in DOMAIN events :
           LET id == events[i].event_id
           IN (/\ id \in DOMAIN next_poll_at
               /\ id \in DOMAIN next_poll_at'
               /\ next_poll_at'[id] # next_poll_at[id]) =>
                /\ id \in fetched'
                /\ events'[i].status # "released" ]_vars

\* an event past its burst window is due again: the plan finds it due with
\* its backoff, and the timers hold what the failed fetches left
C39_Witness ==
  \E i \in DOMAIN events :
    LET first == plan(events[i], now, next_poll_at, backoff)
    IN /\ events[i].event_id \in DOMAIN backoff
       /\ first.plan.due
       /\ ~first.plan.in_burst_window
       /\ first.npa = next_poll_at
       /\ plan(events[i], now, first.npa, first.bo) = first

\* C40: is_expired_for_day(event, now) is true exactly when the status is
\* neither released nor disabled, now is at or after the scheduled time, and
\* now is at or after the cutoff hour of the scheduled date; a pass that
\* evaluates it for every event that has come (force_poll_once without the
\* expired events) leaves the timers, and leaves the events it finds
\* expired as they are.
C40_ExpiredExactly ==
  /\ \A i \in DOMAIN events : \A t \in StartTime..(MaxTime + 1) :
        is_expired_for_day(events[i], t)
          <=> /\ events[i].status \notin {"released", "disabled"}
              /\ t >= events[i].scheduled_time_et
              /\ t >= DayCutoff(events[i])
  /\ \A ocs \in Answers :
        LET r == force_poll_once(events, now, next_poll_at, backoff, FALSE, ocs)
        IN /\ r.npa = next_poll_at
           /\ r.bo = backoff
           /\ \A i \in DOMAIN events :
                is_expired_for_day(events[i], now) => r.events[i] = events[i]

\* at the cutoff: an unfinished event is expired, a released one and one
\* whose time has not come are not
C40_Witness ==
  /\ now = DayCutoff(CensusCalendar[1])
  /\ \E i \in DOMAIN events : is_expired_for_day(events[i], now)
  /\ \E i \in DOMAIN events :
       /\ events[i].status = "released"
       /\ now >= DayCutoff(events[i])
       /\ ~is_expired_for_day(events[i], now)
  /\ \E i \in DOMAIN events :
       /\ events[i].status = "scheduled"
       /\ now < events[i].scheduled_time_et
       /\ ~is_expired_for_day(events[i], now)

TypeOK ==
  /\ now \in StartTime..MaxTime
  /\ \A i \in DOMAIN events : events[i].event_id \in Ids
  /\ DOMAIN next_poll_at \subseteq Ids
  /\ DOMAIN backoff \subseteq Ids
  /\ events_file.kind \in {"absent", "doc", "corrupt"}
  /\ state_file.kind \in {"absent", "doc", "corrupt"}
  /\ events_tmp.kind \in {"absent", "doc", "partial"}
  /\ state_tmp.kind \in {"absent", "doc", "partial"}
  /\ wrote \subseteq Documents
  /\ disk \in {"ok", "failing", "repaired"}
  /\ running \in BOOLEAN
  /\ save_pc.step \in {"idle", "call", "open", "flush", "replace"}
  /\ before.tag \in {"nothing", "memory"}
  /\ after.tag \in {"nothing", "loaded"}
  /\ fetched \subseteq Ids
  /\ stopped \subseteq Ids
  /\ tried \subseteq Ids
  /\ raised \in {"none", "send", "save"}
  /\ reply \in {"none", "embeds", "rerun complete"}
  /\ send_failed \subseteq Kinds \X GroupKeys

====
